---- MODULE Spec2Model ----
(***************************************************************************)
(* A model of the game server: the movement validator, the Player Actor's  *)
(* Move handler, the session handler's rate limiter, and the actor         *)
(* runtime (runner, registry, bus, snapshot maintainer).                   *)
(*                                                                         *)
(* Numbers.  Coordinates are f32 in the source; the model draws them from  *)
(* small sets of integers, on which every f32 operation of the validator   *)
(* is exact, and compares squared distances instead of taking the root     *)
(* (for integers d2 <= 2^24 and T <= 300, sqrt(d2) > T iff d2 > T*T).      *)
(* delta_time is given in tenths of a second (dt10).                       *)
(***************************************************************************)
EXTENDS Integers, Sequences, FiniteSets, TLC

(***************************************************************************)
(* Program constants.                                                      *)
(***************************************************************************)
MAX_SPEED == 100
TELEPORT_THRESHOLD == 300
MAX_VIOLATIONS == 10
WORLD_BOUNDS == 1000
MAX_MOVES_PER_SECOND == 60
RATE_LIMIT_WINDOW_MS == 1000

(***************************************************************************)
(* Bounds of the model.                                                    *)
(***************************************************************************)
\* The largest violations count a Player Actor reaches in SpecPlayer
\* (above MAX_VIOLATIONS, so that moves after the kick are handled too).
MaxStreak == 12
\* Move frames one connection receives in SpecRate (above
\* MAX_MOVES_PER_SECOND, so that a window overflows).
MaxFrames == 63
\* The longest time, in ms, SpecRate lets pass since the window anchor.
MaxElapsedMs == 1400

(***************************************************************************)
(* types.rs: Position                                                      *)
(***************************************************************************)
Position(x, y, z) == <<x, y, z>>

PositionDefault == Position(0, 0, 0)

Abs(n) == IF n < 0 THEN -n ELSE n

\* distance_to, squared: dx*dx + dy*dy + dz*dz (the source takes its root).
distance_sq(a, b) ==
    LET dx == a[1] - b[1]
        dy == a[2] - b[2]
        dz == a[3] - b[3]
    IN  dx * dx + dy * dy + dz * dz

(***************************************************************************)
(* anticheat/validation.rs                                                 *)
(***************************************************************************)
is_in_bounds(pos, bounds) ==
    Abs(pos[1]) <= bounds /\ Abs(pos[2]) <= bounds /\ Abs(pos[3]) <= bounds

\* old.distance_to(new) > max_distance
is_teleport(old_pos, new_pos, max_distance) ==
    distance_sq(old_pos, new_pos) > max_distance * max_distance

\* distance > max_speed * delta_time * 3.0, with delta_time = dt10 / 10:
\* 10 * distance > max_speed * dt10 * 3, both sides squared.
exceeds_speed(old_pos, new_pos, dt10, max_speed) ==
    100 * distance_sq(old_pos, new_pos) >
        (max_speed * dt10 * 3) * (max_speed * dt10 * 3)

\* A variant that tests for a teleport before it tests the world bounds.
validate_movement_teleport_first(old_pos, new_pos, velocity, dt10, max_speed) ==
    IF is_teleport(old_pos, new_pos, TELEPORT_THRESHOLD) THEN "Teleport"
    ELSE IF ~is_in_bounds(new_pos, WORLD_BOUNDS) THEN "OutOfBounds"
    ELSE IF exceeds_speed(old_pos, new_pos, dt10, max_speed) THEN "SpeedHack"
    ELSE "Valid"

validate_movement(old_pos, new_pos, velocity, dt10, max_speed) ==
    IF ~is_in_bounds(new_pos, WORLD_BOUNDS) THEN "OutOfBounds"
    ELSE IF is_teleport(old_pos, new_pos, TELEPORT_THRESHOLD) THEN "Teleport"
    ELSE IF exceeds_speed(old_pos, new_pos, dt10, max_speed) THEN "SpeedHack"
    ELSE "Valid"

(***************************************************************************)
(* player/actor.rs: the Player Actor.  The record holds the fields the     *)
(* handlers change; player_id, wallet and nickname never change and are    *)
(* passed where they are used.  last_update (a clock reading) is left out. *)
(***************************************************************************)
PlayerActorNew ==
    [position |-> PositionDefault, velocity |-> PositionDefault, violations |-> 0]

ErrorFrame(message) == [type |-> "Error", message |-> message]

KickedFrame(reason) == [type |-> "Kicked", reason |-> reason]

\* format!("{} detected. Violations: {}/{}", violation_type, violations, MAX)
ViolationMessage(violation_type, v) ==
    <<violation_type, "detected. Violations:", v, MAX_VIOLATIONS>>

PlayerJoined(id, position) ==
    [type |-> "PlayerJoined", player_id |-> id, position |-> position]

PlayerMoved(id, position, velocity) ==
    [type |-> "PlayerMoved", player_id |-> id, position |-> position,
     velocity |-> velocity]

PlayerLeft(id) == [type |-> "PlayerLeft", player_id |-> id]

\* The result of a handler: the actor after it, the frames it sent to the
\* client (in order) and the events it published on the bus (in order).
Outcome(actor, frames, events) ==
    [actor |-> actor, frames |-> frames, events |-> events]

\* As handle_violation, kicking only above MAX_VIOLATIONS (> for >=).
handle_violation_late_kick(actor, violation_type) ==
    LET v == actor.violations + 1
        error == ErrorFrame(ViolationMessage(violation_type, v))
    IN  Outcome([actor EXCEPT !.violations = v],
                IF v > MAX_VIOLATIONS
                    THEN <<error, KickedFrame("Too many anti-cheat violations")>>
                    ELSE <<error>>,
                <<>>)

\* As handle_violation, the kick also publishing the player's PlayerLeft.
handle_violation_kick_leaves(actor, violation_type) ==
    LET v == actor.violations + 1
        error == ErrorFrame(ViolationMessage(violation_type, v))
    IN  Outcome([actor EXCEPT !.violations = v],
                IF v >= MAX_VIOLATIONS
                    THEN <<error, KickedFrame("Too many anti-cheat violations")>>
                    ELSE <<error>>,
                IF v >= MAX_VIOLATIONS THEN <<PlayerLeft("player_a")>> ELSE <<>>)

handle_violation(actor, violation_type) ==
    LET v == actor.violations + 1
        error == ErrorFrame(ViolationMessage(violation_type, v))
    IN  Outcome([actor EXCEPT !.violations = v],
                IF v >= MAX_VIOLATIONS
                    THEN <<error, KickedFrame("Too many anti-cheat violations")>>
                    ELSE <<error>>,
                <<>>)

\* As HandleMove, with the Valid branch keeping the violations count.
HandleMove_no_reset(actor, player_id, msg) ==
    LET validation == validate_movement(actor.position, msg.position,
                                        msg.velocity, msg.dt10, MAX_SPEED)
    IN  CASE validation = "Valid" ->
                Outcome([position |-> msg.position, velocity |-> msg.velocity,
                         violations |-> actor.violations],
                        <<>>,
                        <<PlayerMoved(player_id, msg.position, msg.velocity)>>)
          [] validation = "SpeedHack" -> handle_violation(actor, "SPEED HACK")
          [] validation = "Teleport" -> handle_violation(actor, "TELEPORT")
          [] validation = "OutOfBounds" ->
                Outcome(actor, <<ErrorFrame("Position out of bounds")>>, <<>>)

\* As HandleMove, committing the position before the move is validated.
HandleMove_commit_first(actor, player_id, msg) ==
    LET validation == validate_movement(actor.position, msg.position,
                                        msg.velocity, msg.dt10, MAX_SPEED)
        moved == [actor EXCEPT !.position = msg.position,
                               !.velocity = msg.velocity]
    IN  CASE validation = "Valid" ->
                Outcome([moved EXCEPT !.violations = 0],
                        <<>>,
                        <<PlayerMoved(player_id, msg.position, msg.velocity)>>)
          [] validation = "SpeedHack" -> handle_violation(moved, "SPEED HACK")
          [] validation = "Teleport" -> handle_violation(moved, "TELEPORT")
          [] validation = "OutOfBounds" ->
                Outcome(actor, <<ErrorFrame("Position out of bounds")>>, <<>>)

\* As HandleMove, treating OutOfBounds as one more violation.
HandleMove_oob_violation(actor, player_id, msg) ==
    LET validation == validate_movement(actor.position, msg.position,
                                        msg.velocity, msg.dt10, MAX_SPEED)
    IN  CASE validation = "Valid" ->
                Outcome([position |-> msg.position, velocity |-> msg.velocity,
                         violations |-> 0],
                        <<>>,
                        <<PlayerMoved(player_id, msg.position, msg.velocity)>>)
          [] validation = "SpeedHack" -> handle_violation(actor, "SPEED HACK")
          [] validation = "Teleport" -> handle_violation(actor, "TELEPORT")
          [] validation = "OutOfBounds" -> handle_violation(actor, "OUT OF BOUNDS")

\* As HandleMove, a Teleport publishing the position it rejects.
HandleMove_rejected_published(actor, player_id, msg) ==
    LET validation == validate_movement(actor.position, msg.position,
                                        msg.velocity, msg.dt10, MAX_SPEED)
    IN  CASE validation = "Valid" ->
                Outcome([position |-> msg.position, velocity |-> msg.velocity,
                         violations |-> 0],
                        <<>>,
                        <<PlayerMoved(player_id, msg.position, msg.velocity)>>)
          [] validation = "SpeedHack" -> handle_violation(actor, "SPEED HACK")
          [] validation = "Teleport" ->
                [handle_violation(actor, "TELEPORT") EXCEPT
                    !.events = <<PlayerMoved(player_id, msg.position, msg.velocity)>>]
          [] validation = "OutOfBounds" ->
                Outcome(actor, <<ErrorFrame("Position out of bounds")>>, <<>>)

\* Handler<GameEvent, MovePlayer>::handle
HandleMove(actor, player_id, msg) ==
    LET validation == validate_movement(actor.position, msg.position,
                                        msg.velocity, msg.dt10, MAX_SPEED)
    IN  CASE validation = "Valid" ->
                Outcome([position |-> msg.position, velocity |-> msg.velocity,
                         violations |-> 0],
                        <<>>,
                        <<PlayerMoved(player_id, msg.position, msg.velocity)>>)
          [] validation = "SpeedHack" -> handle_violation(actor, "SPEED HACK")
          [] validation = "Teleport" -> handle_violation(actor, "TELEPORT")
          [] validation = "OutOfBounds" ->
                Outcome(actor, <<ErrorFrame("Position out of bounds")>>, <<>>)

MovePlayer(position, velocity, dt10) ==
    [position |-> position, velocity |-> velocity, dt10 |-> dt10]

\* Handler<GameEvent, GetState>::handle: the reply, the actor unchanged.
HandleGetState(actor, player_id) ==
    [player_id |-> player_id, position |-> actor.position,
     velocity |-> actor.velocity, previous_position |-> actor.position,
     violations |-> actor.violations]

\* Handler<GameEvent, Kick>::handle
HandleKick(actor, reason) == Outcome(actor, <<KickedFrame(reason)>>, <<>>)

\* Handler<GameEvent, SendMessage>::handle: the raw text goes to the client.
HandleSendMessage(actor, message) ==
    Outcome(actor, <<[type |-> "Text", text |-> message]>>, <<>>)

(***************************************************************************)
(* SpecPlayer: one Player Actor handling Move messages one after another,  *)
(* as its runner delivers them.  plLast records the last handler run: the  *)
(* actor before it, the message, its class and what it sent and published. *)
(* plRun counts the violation moves handled in a row since violations was  *)
(* last zero, with the Error and Kicked frames they sent.                  *)
(***************************************************************************)
VARIABLES pa, plLast, plRun

plVars == <<pa, plLast, plRun>>

MoveCoords == {0, 15, 40, 400, 1001, -2000}

MovePositions ==
    {Position(x, 0, 0) : x \in MoveCoords} \cup
    {Position(0, 1001, 0), Position(15, 0, -1001), Position(0, 30, 40)}

MoveVelocities == {Position(0, 0, 0), Position(10, 0, 0)}

DeltaTenths == {1, 10}

MoveInputs ==
    {MovePlayer(p, v, d) : p \in MovePositions, v \in MoveVelocities, d \in DeltaTenths}

PlayerId == "player_1"

NoRun == [n |-> 0, errs |-> 0, kicks |-> 0, pure |-> TRUE]

CountType(frames, type) ==
    Cardinality({i \in DOMAIN frames : frames[i].type = type})

\* The run of consecutive violation moves after a handler of class `class`
\* that sent `frames`, from actor state `before`.
RunAfter(run, class, before, frames) ==
    CASE class = "Valid" -> NoRun
      [] class \in {"SpeedHack", "Teleport"} ->
            IF run.pure
                THEN [n |-> run.n + 1,
                      errs |-> run.errs + CountType(frames, "Error"),
                      kicks |-> run.kicks + CountType(frames, "Kicked"),
                      pure |-> TRUE]
                ELSE run
      [] OTHER ->
            IF before.violations = 0 THEN NoRun ELSE [NoRun EXCEPT !.pure = FALSE]

PlayerInit ==
    /\ pa = PlayerActorNew
    /\ plLast = [class |-> "none"]
    /\ plRun = NoRun

PlayerHandleMove(msg) ==
    LET out == HandleMove(pa, PlayerId, msg)
        class == validate_movement(pa.position, msg.position, msg.velocity,
                                   msg.dt10, MAX_SPEED)
    IN  /\ out.actor.violations <= MaxStreak
        /\ pa' = out.actor
        /\ plLast' = [class |-> class, before |-> pa, msg |-> msg,
                      frames |-> out.frames, events |-> out.events]
        /\ plRun' = RunAfter(plRun, class, pa, out.frames)

PlayerHandleGetState ==
    /\ plLast' = [class |-> "GetState", before |-> pa, frames |-> <<>>,
                  events |-> <<>>, reply |-> HandleGetState(pa, PlayerId)]
    /\ plRun' = RunAfter(plRun, "GetState", pa, <<>>)
    /\ UNCHANGED pa

PlayerHandleKick(reason) ==
    LET out == HandleKick(pa, reason)
    IN  /\ pa' = out.actor
        /\ plLast' = [class |-> "Kick", before |-> pa, frames |-> out.frames,
                      events |-> out.events]
        /\ plRun' = RunAfter(plRun, "Kick", pa, out.frames)

PlayerHandleSendMessage(message) ==
    LET out == HandleSendMessage(pa, message)
    IN  /\ pa' = out.actor
        /\ plLast' = [class |-> "SendMessage", before |-> pa,
                      frames |-> out.frames, events |-> out.events]
        /\ plRun' = RunAfter(plRun, "SendMessage", pa, out.frames)

PlayerNext ==
    \/ \E msg \in MoveInputs : PlayerHandleMove(msg)
    \/ PlayerHandleGetState
    \/ PlayerHandleKick("admin")
    \/ PlayerHandleSendMessage("hello")


(***************************************************************************)
(* actor/mod.rs: ActorRef::tell on a mailbox (a sequence of envelopes) that *)
(* is open or closed: the mailbox afterwards and the result.               *)
(***************************************************************************)
\* As tell, enqueueing on a closed mailbox too.
tell_ignoring_close(mailbox, isClosed, msg) ==
    [mailbox |-> Append(mailbox, msg), result |-> "Ok"]

tell(mailbox, isClosed, msg) ==
    IF isClosed
        THEN [mailbox |-> mailbox, result |-> "SendError"]
        ELSE [mailbox |-> Append(mailbox, msg), result |-> "Ok"]

(***************************************************************************)
(* handlers/websocket.rs: process_message, the Move branch up to the tell. *)
(* elapsed_ms is now - window_start; the result is the limiter's state     *)
(* after the frame and whether the Move is told to the actor.              *)
(***************************************************************************)
\* As process_message_move, dropping from the MAX-th Move on (>= for >).
process_message_move_off_by_one(move_count, elapsed_ms) ==
    LET rolled == elapsed_ms >= RATE_LIMIT_WINDOW_MS
        count == (IF rolled THEN 0 ELSE move_count) + 1
    IN  [move_count |-> count, rolled |-> rolled,
         admitted |-> ~(count >= MAX_MOVES_PER_SECOND)]

process_message_move(move_count, elapsed_ms) ==
    LET rolled == elapsed_ms >= RATE_LIMIT_WINDOW_MS
        count == (IF rolled THEN 0 ELSE move_count) + 1
    IN  [move_count |-> count, rolled |-> rolled,
         admitted |-> ~(count > MAX_MOVES_PER_SECOND)]

(***************************************************************************)
(* SpecRate: the read loop of one connection whose Player Actor is         *)
(* running.  Time passes between frames; rlElapsed is the time since       *)
(* window_start.  Move frames are numbered as they arrive; rlMailbox holds *)
(* the numbers told to the actor, rlSink the frames sent to the client,    *)
(* rlWinFirst the number of the first Move of the current window.          *)
(* rlProbe is a stopwatch started at some moment before the first Move     *)
(* (history): while less than RATE_LIMIT_WINDOW_MS have passed since that  *)
(* moment, the time since then and the Moves told to the actor since then. *)
(***************************************************************************)
VARIABLES rlMoveCount, rlElapsed, rlArrived, rlMailbox, rlSink, rlWinFirst, rlLast,
          rlProbe

rlVars == <<rlMoveCount, rlElapsed, rlArrived, rlMailbox, rlSink, rlWinFirst, rlLast,
            rlProbe>>

ProbeOff == [on |-> FALSE, age |-> 0, told |-> 0]

Delays == {400, 600}

RateInit ==
    /\ rlMoveCount = 0
    /\ rlElapsed = 0
    /\ rlArrived = 0
    /\ rlMailbox = <<>>
    /\ rlSink = <<>>
    /\ rlWinFirst = 1
    /\ rlLast = [kind |-> "none"]
    /\ rlProbe = ProbeOff

\* The stopwatch after d ms more; it is put away when the interval is over.
ProbeAfter(probe, d) ==
    IF probe.on /\ probe.age + d < RATE_LIMIT_WINDOW_MS
        THEN [probe EXCEPT !.age = probe.age + d]
        ELSE ProbeOff

\* The stopwatch after a Move frame: a Move told to the actor within the
\* interval is counted.
ProbeCount(probe, admitted) ==
    IF probe.on /\ admitted
        THEN [probe EXCEPT !.told = probe.told + 1]
        ELSE probe

RateTimePasses(d) ==
    /\ rlElapsed + d <= MaxElapsedMs
    /\ rlElapsed' = rlElapsed + d
    /\ rlProbe' = ProbeAfter(rlProbe, d)
    /\ UNCHANGED <<rlMoveCount, rlArrived, rlMailbox, rlSink, rlWinFirst, rlLast>>

\* The interval observed begins now, rlElapsed ms after window_start was
\* set (line 86), before the connection's first Move frame.
RateProbeStart ==
    /\ ~rlProbe.on
    /\ rlArrived = 0
    /\ rlProbe' = [on |-> TRUE, age |-> 0, told |-> 0]
    /\ UNCHANGED <<rlMoveCount, rlElapsed, rlArrived, rlMailbox, rlSink,
                   rlWinFirst, rlLast>>

\* A Move frame arrives: process_message.
RateMoveFrame ==
    LET r == process_message_move(rlMoveCount, rlElapsed)
        id == rlArrived + 1
        t == tell(rlMailbox, FALSE, id)
    IN  /\ rlArrived < MaxFrames
        /\ rlArrived' = id
        /\ rlMoveCount' = r.move_count
        /\ rlElapsed' = IF r.rolled THEN 0 ELSE rlElapsed
        /\ rlWinFirst' = IF r.rolled THEN id ELSE rlWinFirst
        /\ rlMailbox' = IF r.admitted THEN t.mailbox ELSE rlMailbox
        /\ rlLast' = [kind |-> "Move", id |-> id, admitted |-> r.admitted,
                      mailboxBefore |-> rlMailbox, sinkBefore |-> rlSink]
        /\ rlProbe' = ProbeCount(rlProbe, r.admitted)
        /\ UNCHANGED rlSink

\* A GetState frame arrives: nothing is done.
RateGetStateFrame ==
    /\ rlLast' = [kind |-> "GetState"]
    /\ UNCHANGED <<rlMoveCount, rlElapsed, rlArrived, rlMailbox, rlSink, rlWinFirst,
                   rlProbe>>

RateNext ==
    \/ \E d \in Delays : RateTimePasses(d)
    \/ RateProbeStart
    \/ RateMoveFrame
    \/ RateGetStateFrame


(***************************************************************************)
(* The actor system, the bus and the connection registry, as the runner,   *)
(* the Player Actor and the session handler use them.                      *)
(*                                                                         *)
(* A session is one run of handle_connection.  The actor a session creates *)
(* is named by the session: actor i is the PlayerActor that session i      *)
(* passed to create_actor, with its runner and its mailbox.  An actor path *)
(* /user/player-<id> is named by the player id.                            *)
(***************************************************************************)
Sessions == {1, 2}

Players == {"player_a", "player_b"}

\* Move frames the sessions of Spec read, all together.
MaxSysFrames == 1
\* Move frames the one session of SpecSolo reads.
MaxSoloFrames == 3

\* The player ids a session's token may carry.  Session 1 is given the
\* first player: the sessions and the players are interchangeable, so
\* every run is a renaming of one of these.
PidChoices(s) == IF s = 1 THEN {"player_a"} ELSE Players

NoActor == 0

NoEntry == [present |-> FALSE]

\* The Move frames a client sends in Spec: to (15,0,0), Valid from the
\* origin and from (15,0,0); to (400,0,0), a Teleport from both.
SysMoves ==
    {MovePlayer(Position(15, 0, 0), Position(10, 0, 0), 10),
     MovePlayer(Position(400, 0, 0), Position(10, 0, 0), 10)}

\* Time since window_start when a frame arrives in Spec.
SysElapsed == {0, RATE_LIMIT_WINDOW_MS}

\* Move frames the one session of SpecKick reads (above MAX_VIOLATIONS).
MaxKickFrames == 11

\* Move frames the one session of SpecMix reads.
MaxMixFrames == 3

\* The Move frames the client of SpecMix sends: to (15,0,0) in one second,
\* Valid; to (100,0,0) in a tenth of a second, a SpeedHack; to (400,0,0), a
\* Teleport; to (1001,0,0), OutOfBounds (from the origin and from (15,0,0)).
MixMoves ==
    {MovePlayer(Position(15, 0, 0), Position(10, 0, 0), 10),
     MovePlayer(Position(100, 0, 0), Position(10, 0, 0), 1),
     MovePlayer(Position(400, 0, 0), Position(10, 0, 0), 10),
     MovePlayer(Position(1001, 0, 0), Position(10, 0, 0), 10)}

\* The Move frame the client of SpecKick sends: a Teleport from the origin.
KickMoves == {MovePlayer(Position(400, 0, 0), Position(10, 0, 0), 10)}

VARIABLES
    sPc,        \* session -> where handle_connection is
    sPid,       \* session -> claims.player_id ("" before authentication)
    sMoveCount, \* session -> move_count
    sFrames,    \* session -> Move frames read so far
    sTell,      \* session -> result of its last tell ("none" before any) and
                \* whether its actor had been stopped by then (history)
    frameBudget,\* Move frames the sessions may still read (bounds the model)
    registry,   \* path -> the actor registered there, or NoActor
    connections,\* player id -> the session whose sink is registered, or 0
    aPc,        \* actor -> where its runner is
    mailbox,    \* actor -> envelopes queued
    closed,     \* actor -> whether its mailbox is closed
    actor,      \* actor -> the PlayerActor's fields
    inflight,   \* actor -> envelopes whose handler has begun and not ended
    hlog,       \* actor -> handler begins and ends, in order (history)
    stopped,    \* actor -> stop_actor has removed it from the registry (history)
    outbox,     \* session -> frames the actor sent on the session's sink
    bus,        \* events published and not yet received by the maintainer
    lifeLog,    \* PlayerJoined and PlayerLeft publications, in order (history)
    lastLife,   \* player id -> type of the last PlayerJoined or PlayerLeft
                \* the maintainer applied for it, "none" before any (history)
    snapshot    \* player id -> snapshot entry, or NoEntry

sysVars == <<sPc, sPid, sMoveCount, sFrames, sTell, frameBudget, registry, connections, aPc,
             mailbox, closed, actor, inflight, hlog, stopped, outbox,
             bus, lifeLog, lastLife, snapshot>>

sessVars == <<sPc, sPid, sMoveCount, sFrames, sTell, frameBudget>>

actorVars == <<aPc, mailbox, closed, actor, inflight, hlog>>

busVars == <<bus, lifeLog, lastLife, snapshot>>

SysInit(budget) ==
    /\ frameBudget = budget
    /\ sPc = [s \in Sessions |-> "idle"]
    /\ sPid = [s \in Sessions |-> ""]
    /\ sMoveCount = [s \in Sessions |-> 0]
    /\ sFrames = [s \in Sessions |-> 0]
    /\ sTell = [s \in Sessions |-> [result |-> "none", stopped |-> FALSE]]
    /\ registry = [p \in Players |-> NoActor]
    /\ connections = [p \in Players |-> 0]
    /\ aPc = [i \in Sessions |-> "none"]
    /\ mailbox = [i \in Sessions |-> <<>>]
    /\ closed = [i \in Sessions |-> FALSE]
    /\ actor = [i \in Sessions |-> PlayerActorNew]
    /\ inflight = [i \in Sessions |-> {}]
    /\ hlog = [i \in Sessions |-> <<>>]
    /\ stopped = [i \in Sessions |-> FALSE]
    /\ outbox = [s \in Sessions |-> <<>>]
    /\ bus = <<>>
    /\ lifeLog = <<>>
    /\ lastLife = [p \in Players |-> "none"]
    /\ snapshot = [p \in Players |-> NoEntry]

(***************************************************************************)
(* ActorSystem (actor_system/system.rs is not among the sources; modelled  *)
(* from the specification, sections 4.5 and 5).                            *)
(***************************************************************************)
\* stop_actor(path): idempotent; the entry at the path, if any, is removed
\* from the registry and close is sent to its mailbox.
stop_actor(reg, cl, st, path) ==
    IF reg[path] = NoActor
        THEN [registry |-> reg, closed |-> cl, stopped |-> st]
        ELSE [registry |-> [reg EXCEPT ![path] = NoActor],
              closed |-> [cl EXCEPT ![reg[path]] = TRUE],
              stopped |-> [st EXCEPT ![reg[path]] = TRUE]]

\* get_actor(path): the actor registered at the path, or none.
get_actor(reg, path) == reg[path]

\* A variant that never refuses.
create_refused_never(reg, path) == FALSE

\* create_actor(name, actor) refuses a path that is live.
create_refused(reg, path) == reg[path] # NoActor

\* publish(event): the events are appended to the bus, in order.
publish(b, events) == b \o events

\* The lifecycle log after actor `src` published `events`.
LifeAfter(log, events, src) ==
    log \o [k \in 1..Len(events) |-> [type |-> events[k].type, src |-> src]]

(***************************************************************************)
(* network/broadcast.rs: handle_game_event on the snapshot table.          *)
(***************************************************************************)
\* A variant in which PlayerMoved creates the entry of an unknown player.
handle_game_event_moved_inserts(event, states) ==
    CASE event.type = "PlayerJoined" ->
            [states EXCEPT ![event.player_id] =
                [present |-> TRUE,
                 position |-> event.position,
                 velocity |-> PositionDefault,
                 previous_position |-> event.position,
                 violations |-> 0]]
      [] event.type = "PlayerMoved" ->
            [states EXCEPT ![event.player_id] =
                [present |-> TRUE,
                 position |-> event.position,
                 velocity |-> event.velocity,
                 previous_position |-> event.position,
                 violations |-> 0]]
      [] event.type = "PlayerLeft" ->
            [states EXCEPT ![event.player_id] = NoEntry]

\* A variant in which PlayerMoved leaves previous_position as it was.
handle_game_event_no_shift(event, states) ==
    CASE event.type = "PlayerJoined" ->
            [states EXCEPT ![event.player_id] =
                [present |-> TRUE,
                 position |-> event.position,
                 velocity |-> PositionDefault,
                 previous_position |-> event.position,
                 violations |-> 0]]
      [] event.type = "PlayerMoved" ->
            IF states[event.player_id].present
                THEN [states EXCEPT ![event.player_id].position = event.position,
                                    ![event.player_id].velocity = event.velocity]
                ELSE states
      [] event.type = "PlayerLeft" ->
            [states EXCEPT ![event.player_id] = NoEntry]

\* A variant in which PlayerMoved counts in the violations field.
handle_game_event_counts(event, states) ==
    CASE event.type = "PlayerJoined" ->
            [states EXCEPT ![event.player_id] =
                [present |-> TRUE,
                 position |-> event.position,
                 velocity |-> PositionDefault,
                 previous_position |-> event.position,
                 violations |-> 0]]
      [] event.type = "PlayerMoved" ->
            IF states[event.player_id].present
                THEN [states EXCEPT ![event.player_id] =
                        [present |-> TRUE,
                         position |-> event.position,
                         velocity |-> event.velocity,
                         previous_position |-> states[event.player_id].position,
                         violations |-> states[event.player_id].violations + 1]]
                ELSE states
      [] event.type = "PlayerLeft" ->
            [states EXCEPT ![event.player_id] = NoEntry]

\* Lines 71-122: PlayerJoined inserts (or replaces) the entry, PlayerMoved
\* updates an existing entry and is ignored otherwise, PlayerLeft removes.
handle_game_event(event, states) ==
    CASE event.type = "PlayerJoined" ->
            [states EXCEPT ![event.player_id] =
                [present |-> TRUE,
                 position |-> event.position,
                 velocity |-> PositionDefault,
                 previous_position |-> event.position,
                 violations |-> 0]]
      [] event.type = "PlayerMoved" ->
            IF states[event.player_id].present
                THEN [states EXCEPT ![event.player_id] =
                        [present |-> TRUE,
                         position |-> event.position,
                         velocity |-> event.velocity,
                         previous_position |-> states[event.player_id].position,
                         violations |-> states[event.player_id].violations]]
                ELSE states
      [] event.type = "PlayerLeft" ->
            [states EXCEPT ![event.player_id] = NoEntry]

(***************************************************************************)
(* handlers/websocket.rs: handle_connection, one action per step between   *)
(* two points where other tasks can run.                                   *)
(***************************************************************************)
\* Lines 26-47: the token is authenticated and yields the player id.
SessConnect(s, pid) ==
    /\ sPc[s] = "idle"
    /\ sPc' = [sPc EXCEPT ![s] = "stop_old"]
    /\ sPid' = [sPid EXCEPT ![s] = pid]
    /\ UNCHANGED <<sMoveCount, sFrames, sTell, frameBudget, registry, connections, actorVars,
                   stopped, outbox, busVars>>

\* Line 49: system.stop_actor(&actor_path).
SessStopOld(s) ==
    LET r == stop_actor(registry, closed, stopped, sPid[s])
    IN  /\ sPc[s] = "stop_old"
        /\ sPc' = [sPc EXCEPT ![s] = "swap_sink"]
        /\ registry' = r.registry
        /\ closed' = r.closed
        /\ stopped' = r.stopped
        /\ UNCHANGED <<sPid, sMoveCount, sFrames, sTell, frameBudget, connections, aPc, mailbox,
                       actor, inflight, hlog, outbox, busVars>>

\* Lines 50-68: connection_manager.remove then connection_manager.add (no
\* suspension point between them), the forwarder is spawned, the PlayerActor
\* value is built, the handler sleeps 10 ms.
SessSwapSink(s) ==
    /\ sPc[s] = "swap_sink"
    /\ sPc' = [sPc EXCEPT ![s] = "create"]
    /\ connections' = [[connections EXCEPT ![sPid[s]] = 0] EXCEPT ![sPid[s]] = s]
    /\ UNCHANGED <<sPid, sMoveCount, sFrames, sTell, frameBudget, registry, actorVars, stopped,
                   outbox, busVars>>

\* Lines 70-83: system.create_actor.  Refused (Exists): the handler returns.
\* Otherwise the runner is spawned and the path registered.
SessCreate(s) ==
    /\ sPc[s] = "create"
    /\ IF create_refused(registry, sPid[s])
          THEN /\ sPc' = [sPc EXCEPT ![s] = "refused"]
               /\ UNCHANGED <<registry, aPc>>
          ELSE /\ sPc' = [sPc EXCEPT ![s] = "read"]
               /\ registry' = [registry EXCEPT ![sPid[s]] = s]
               /\ aPc' = [aPc EXCEPT ![s] = "pre_start"]
    /\ UNCHANGED <<sPid, sMoveCount, sFrames, sTell, frameBudget, connections, mailbox, closed,
                   actor, inflight, hlog, stopped, outbox, busVars>>

\* Lines 88-102 and process_message: a Move frame is read.  The envelope
\* carries the frame's number (history) and the message.
SessMoveFrame(s, msg, elapsed_ms) ==
    LET r == process_message_move(sMoveCount[s], elapsed_ms)
        id == sFrames[s] + 1
        t == tell(mailbox[s], closed[s], [id |-> id, msg |-> msg])
    IN  /\ sPc[s] = "read"
        /\ frameBudget > 0
        /\ frameBudget' = frameBudget - 1
        /\ sFrames' = [sFrames EXCEPT ![s] = id]
        /\ sMoveCount' = [sMoveCount EXCEPT ![s] = r.move_count]
        /\ IF r.admitted
              THEN /\ mailbox' = [mailbox EXCEPT ![s] = t.mailbox]
                   /\ sTell' = [sTell EXCEPT ![s] =
                                  [result |-> t.result, stopped |-> stopped[s]]]
              ELSE UNCHANGED <<mailbox, sTell>>
        /\ UNCHANGED <<sPc, sPid, registry, connections, aPc, closed, actor,
                       inflight, hlog, stopped, outbox, busVars>>

\* Lines 103-105: a read error, or the stream ends.
SessDisconnect(s) ==
    /\ sPc[s] = "read"
    /\ sPc' = [sPc EXCEPT ![s] = "exit_remove"]
    /\ UNCHANGED <<sPid, sMoveCount, sFrames, sTell, frameBudget, registry, connections,
                   actorVars, stopped, outbox, busVars>>

\* Line 112: connection_manager.remove(&claims.player_id).
SessExitRemove(s) ==
    /\ sPc[s] = "exit_remove"
    /\ sPc' = [sPc EXCEPT ![s] = "exit_stop"]
    /\ connections' = [connections EXCEPT ![sPid[s]] = 0]
    /\ UNCHANGED <<sPid, sMoveCount, sFrames, sTell, frameBudget, registry, actorVars, stopped,
                   outbox, busVars>>

\* Line 113: system.stop_actor(actor_ref.path()).
SessExitStop(s) ==
    LET r == stop_actor(registry, closed, stopped, sPid[s])
    IN  /\ sPc[s] = "exit_stop"
        /\ sPc' = [sPc EXCEPT ![s] = "done"]
        /\ registry' = r.registry
        /\ closed' = r.closed
        /\ stopped' = r.stopped
        /\ UNCHANGED <<sPid, sMoveCount, sFrames, sTell, frameBudget, connections, aPc, mailbox,
                       actor, inflight, hlog, outbox, busVars>>

(***************************************************************************)
(* actor/runner.rs: ActorRunner::start for a PlayerActor (no idle timeout, *)
(* supervision Stop, a pre_start that cannot fail).                        *)
(***************************************************************************)
\* Line 37, PlayerActor::pre_start: PlayerJoined is published.
RunnerPreStart(i) ==
    /\ aPc[i] = "pre_start"
    /\ aPc' = [aPc EXCEPT ![i] = "recv"]
    /\ bus' = publish(bus, <<PlayerJoined(sPid[i], actor[i].position)>>)
    /\ lifeLog' = LifeAfter(lifeLog, <<PlayerJoined(sPid[i], actor[i].position)>>, i)
    /\ UNCHANGED <<sessVars, registry, connections, mailbox, closed, actor,
                   inflight, hlog, stopped, outbox, lastLife, snapshot>>

\* As recv_ready, taking the next envelope while a handler is running.
recv_ready_concurrent(i) == aPc[i] \in {"recv", "handle"}

\* Lines 80-82: recv() is awaited only when no handler is running.
recv_ready(i) == aPc[i] = "recv"

\* Line 80: recv() yields the next envelope; its handler begins.
RunnerRecv(i) ==
    /\ recv_ready(i)
    /\ mailbox[i] # <<>>
    /\ mailbox' = [mailbox EXCEPT ![i] = Tail(@)]
    /\ inflight' = [inflight EXCEPT ![i] = @ \cup {Head(mailbox[i])}]
    /\ hlog' = [hlog EXCEPT ![i] = Append(@, <<"begin", Head(mailbox[i]).id>>)]
    /\ aPc' = [aPc EXCEPT ![i] = "handle"]
    /\ UNCHANGED <<sessVars, registry, connections, closed, actor, stopped,
                   outbox, busVars>>

\* Line 81, ActorMessage::handle: the handler runs to its end (a tell has
\* no reply channel).
RunnerHandle(i) ==
    \E env \in inflight[i] :
        LET out == HandleMove(actor[i], sPid[i], env.msg)
        IN  /\ aPc[i] = "handle"
            /\ actor' = [actor EXCEPT ![i] = out.actor]
            /\ outbox' = [outbox EXCEPT ![i] = @ \o out.frames]
            /\ bus' = publish(bus, out.events)
            /\ inflight' = [inflight EXCEPT ![i] = @ \ {env}]
            /\ hlog' = [hlog EXCEPT ![i] = Append(@, <<"end", env.id>>)]
            /\ aPc' = [aPc EXCEPT ![i] = IF inflight[i] = {env} THEN "recv" ELSE "handle"]
            /\ UNCHANGED <<sessVars, registry, connections, mailbox, closed,
                           stopped, lifeLog, lastLife, snapshot>>

\* Line 80: recv() yields none on a closed and empty mailbox; the loop ends.
RunnerLoopEnd(i) ==
    /\ aPc[i] = "recv"
    /\ mailbox[i] = <<>>
    /\ closed[i]
    /\ aPc' = [aPc EXCEPT ![i] = "post_stop"]
    /\ UNCHANGED <<sessVars, registry, connections, mailbox, closed, actor,
                   inflight, hlog, stopped, outbox, busVars>>

\* A variant in which post_stop publishes PlayerLeft twice.
RunnerPostStop_twice(i) ==
    /\ aPc[i] = "post_stop"
    /\ aPc' = [aPc EXCEPT ![i] = "unregister"]
    /\ bus' = publish(bus, <<PlayerLeft(sPid[i]), PlayerLeft(sPid[i])>>)
    /\ lifeLog' = LifeAfter(lifeLog, <<PlayerLeft(sPid[i]), PlayerLeft(sPid[i])>>, i)
    /\ UNCHANGED <<sessVars, registry, connections, mailbox, closed, actor,
                   inflight, hlog, stopped, outbox, lastLife, snapshot>>

\* Line 85, PlayerActor::post_stop: PlayerLeft is published.
RunnerPostStop(i) ==
    /\ aPc[i] = "post_stop"
    /\ aPc' = [aPc EXCEPT ![i] = "unregister"]
    /\ bus' = publish(bus, <<PlayerLeft(sPid[i])>>)
    /\ lifeLog' = LifeAfter(lifeLog, <<PlayerLeft(sPid[i])>>, i)
    /\ UNCHANGED <<sessVars, registry, connections, mailbox, closed, actor,
                   inflight, hlog, stopped, outbox, lastLife, snapshot>>

\* Lines 86-91: system.stop_actor(&self.path), then self.receiver.close().
RunnerUnregister(i) ==
    LET r == stop_actor(registry, closed, stopped, sPid[i])
    IN  /\ aPc[i] = "unregister"
        /\ aPc' = [aPc EXCEPT ![i] = "done"]
        /\ registry' = r.registry
        /\ closed' = [r.closed EXCEPT ![i] = TRUE]
        /\ stopped' = r.stopped
        /\ UNCHANGED <<sessVars, connections, mailbox, actor, inflight, hlog,
                       outbox, busVars>>

(***************************************************************************)
(* network/broadcast.rs: the snapshot maintainer applies the next event.   *)
(***************************************************************************)
\* events.recv() yields the oldest event not yet received (the bus holds
\* 1000 events, main.rs line 35: the maintainer does not lag in this model).
MaintainerApply ==
    /\ bus # <<>>
    /\ bus' = Tail(bus)
    /\ snapshot' = handle_game_event(Head(bus), snapshot)
    /\ lastLife' = IF Head(bus).type \in {"PlayerJoined", "PlayerLeft"}
                       THEN [lastLife EXCEPT ![Head(bus).player_id] = Head(bus).type]
                       ELSE lastLife
    /\ UNCHANGED <<sessVars, registry, connections, actorVars, stopped, outbox,
                   lifeLog>>

\* The steps of the sessions in S, of the actors they create and of the
\* maintainer, the clients sending the Move frames `moves` at the times
\* `elapsed` since window_start.
SysSteps(S, moves, elapsed) ==
    \/ \E s \in S : \E pid \in PidChoices(s) : SessConnect(s, pid)
    \/ \E s \in S : SessStopOld(s)
    \/ \E s \in S : SessSwapSink(s)
    \/ \E s \in S : SessCreate(s)
    \/ \E s \in S, msg \in moves, e \in elapsed : SessMoveFrame(s, msg, e)
    \/ \E s \in S : SessDisconnect(s)
    \/ \E s \in S : SessExitRemove(s)
    \/ \E s \in S : SessExitStop(s)
    \/ \E i \in S : RunnerPreStart(i)
    \/ \E i \in S : RunnerRecv(i)
    \/ \E i \in S : RunnerHandle(i)
    \/ \E i \in S : RunnerLoopEnd(i)
    \/ \E i \in S : RunnerPostStop(i)
    \/ \E i \in S : RunnerUnregister(i)
    \/ MaintainerApply

SysNext(S) == SysSteps(S, SysMoves, SysElapsed)

(***************************************************************************)
(* network/broadcast.rs: the tick loop of broadcast_positions.             *)
(***************************************************************************)
VARIABLES
    update      \* the last StateUpdate: its players, and (history) the last
                \* PlayerJoined / PlayerLeft applied for each id at that tick

tkVars == <<update>>

TickInit == update = [sent |-> FALSE]

\* A variant that sends the players of the previous tick.
StateUpdatePlayers_stale(states, previous) ==
    IF previous.sent THEN previous.players ELSE {}

\* Lines 43-50: the entries of the table, collected into StateUpdate.players.
StateUpdatePlayers(states, previous) ==
    {[player_id |-> p, state |-> states[p]] :
        p \in {q \in DOMAIN states : states[q].present}}

\* Lines 40-53: one tick.
Tick ==
    /\ update' = [sent |-> TRUE,
                  players |-> StateUpdatePlayers(snapshot, update),
                  life |-> lastLife]
    /\ UNCHANGED sysVars

(***************************************************************************)
(* anticheat/validation.rs called on its own: each step calls               *)
(* validate_movement, is_teleport and is_in_bounds on one input.            *)
(***************************************************************************)
VARIABLES
    vIn,        \* the input of the last call ("none" before any)
    vOut        \* what the three functions returned on it

vlVars == <<vIn, vOut>>

ValOldPositions == {Position(0, 0, 0), Position(15, 0, 0), Position(0, -1000, 0)}

ValXCoords == {0, 1, 15, 25, 30, 31, 40, 300, 301, 400, 1000, 1001, 2000, -2000}

ValYCoords == {0, 40, -1001}

ValZCoords == {0, 300}

ValNewPositions ==
    {Position(x, y, z) : x \in ValXCoords, y \in ValYCoords, z \in ValZCoords}

ValMaxSpeeds == {MAX_SPEED, 50}

ValidateInputs ==
    [old_pos : ValOldPositions, new_pos : ValNewPositions,
     velocity : {Position(10, 0, 0)}, dt10 : DeltaTenths, max_speed : ValMaxSpeeds]

ValidateInit ==
    /\ vIn = [called |-> FALSE]
    /\ vOut = [called |-> FALSE]

ValidateCall(in) ==
    /\ vIn' = [called |-> TRUE, old_pos |-> in.old_pos, new_pos |-> in.new_pos,
               velocity |-> in.velocity, dt10 |-> in.dt10,
               max_speed |-> in.max_speed]
    /\ vOut' = [called |-> TRUE,
                class |-> validate_movement(in.old_pos, in.new_pos, in.velocity,
                                            in.dt10, in.max_speed),
                teleport |-> is_teleport(in.old_pos, in.new_pos,
                                         TELEPORT_THRESHOLD),
                in_bounds |-> is_in_bounds(in.new_pos, WORLD_BOUNDS)]

ValidateNext == \E in \in ValidateInputs : ValidateCall(in)

(***************************************************************************)
(* actor_system/actor/runner.rs and supervision.rs: the start-up of one    *)
(* actor whose pre_start and pre_restart may fail, under a supervision     *)
(* strategy, with a client that holds the ActorRef.                        *)
(***************************************************************************)
\* The largest max_retries of a retry strategy.
MaxRetries == 2
\* Messages the client sends to the actor.
MaxStartTells == 2

VARIABLES
    svPc,        \* where the runner is in ActorRunner::start
    svPolicy,    \* A::supervision_strategy()
    svExpired,   \* ExponentialBackoff: the inner backoff has given up
    svRetries,   \* retries (line 41)
    svError,     \* start_error: 0 for none, else the attempt that failed
    svLog,       \* history: the lifecycle calls made on the actor, in order
    svMailbox,   \* the envelopes buffered in the mailbox
    svClosed,    \* the mailbox is closed
    svInflight,  \* the envelope being handled (a set of at most one)
    svHandled,   \* history: the ids handled, in order
    svSent,      \* history: the ids enqueued, in order
    svEarly,     \* history: the ids enqueued before the start-up ended
    svLastSend,  \* the result of the client's last tell or ask
    svRegistered, \* the path is in the registry
    svCreate     \* what create_actor returned to its caller

svVars == <<svPc, svPolicy, svExpired, svRetries, svError, svLog, svMailbox,
            svClosed, svInflight, svHandled, svSent, svEarly, svLastSend,
            svRegistered, svCreate>>

RetryStrategies == {"NoInterval", "FixedInterval", "ExponentialBackoff"}

Policies ==
    {[kind |-> "Stop", strategy |-> "none", max_retries |-> 0]}
    \cup [kind : {"Retry"}, strategy : RetryStrategies,
          max_retries : 0..MaxRetries]

LogEntry(kind, err, ok) == [kind |-> kind, err |-> err, ok |-> ok]

StartInit ==
    /\ svPc = "idle"
    /\ svPolicy = [kind |-> "none"]
    /\ svExpired = FALSE
    /\ svRetries = 0
    /\ svError = 0
    /\ svLog = <<>>
    /\ svMailbox = <<>>
    /\ svClosed = FALSE
    /\ svInflight = {}
    /\ svHandled = <<>>
    /\ svSent = <<>>
    /\ svEarly = {}
    /\ svLastSend = [kind |-> "none", id |-> 0, result |-> "none", pc |-> "idle"]
    /\ svRegistered = FALSE
    /\ svCreate = "none"

\* The values next_backoff() can return: "none" or "some" (a duration), and
\* whether the inner backoff has given up afterwards.
next_backoff(strategy, expired) ==
    CASE strategy = "NoInterval" -> {[duration |-> "none", expired |-> expired]}
      [] strategy = "FixedInterval" ->
            {[duration |-> "some", expired |-> expired]}
      [] strategy = "ExponentialBackoff" ->
            IF expired THEN {[duration |-> "none", expired |-> TRUE]}
            ELSE {[duration |-> "some", expired |-> FALSE],
                  [duration |-> "none", expired |-> TRUE]}

\* A variant that retries once more than max_retries.
retry_loop_cond_off_by_one(retries, max_retries, start_error) ==
    retries <= max_retries /\ start_error # 0

\* Line 51: retries < retry_strategy.max_retries() && start_error.is_some()
retry_loop_cond(retries, max_retries, start_error) ==
    retries < max_retries /\ start_error # 0

\* ActorRef::ask, lines 163-168: the send of the envelope with its reply
\* channel; a closed mailbox gives SendError.
ask_send(mb, isClosed, msg) ==
    IF isClosed THEN [mailbox |-> mb, result |-> "SendError"]
    ELSE [mailbox |-> Append(mb, msg), result |-> "Pending"]

\* A variant in which a next_backoff() of "none" ends the retries.
after_backoff_none_stops(duration) ==
    IF duration = "none" THEN "cleanup" ELSE "restart"

\* Lines 53-57: the runner sleeps if next_backoff() gave a duration, and goes
\* on to the restart in both cases.
after_backoff(duration) == "restart"

\* A variant that takes the newest envelope first.
mailbox_recv_newest_first(mb) ==
    [msg |-> mb[Len(mb)], rest |-> SubSeq(mb, 1, Len(mb) - 1)]

\* receiver.recv() on a mailbox that holds envelopes: the oldest one.
mailbox_recv(mb) == [msg |-> Head(mb), rest |-> Tail(mb)]

StartupPcs == {"pre_start", "retry_check", "backoff", "restart"}

\* create_actor: the runner is created with its mailbox (ActorRunner::create),
\* the path registered, start spawned and the ActorRef returned.
StartCreate(policy) ==
    /\ svPc = "idle"
    /\ svPc' = "pre_start"
    /\ svPolicy' = policy
    /\ svRegistered' = TRUE
    /\ svCreate' = "Ok"
    /\ UNCHANGED <<svExpired, svRetries, svError, svLog, svMailbox, svClosed,
                   svInflight, svHandled, svSent, svEarly, svLastSend>>

\* ActorRef::tell or ActorRef::ask by a holder of the reference.
StartSend(kind) ==
    LET id == svLastSend.id + 1
        env == [id |-> id, kind |-> kind]
        t == IF kind = "tell" THEN tell(svMailbox, svClosed, env)
             ELSE ask_send(svMailbox, svClosed, env)
    IN  /\ svPc # "idle"
        /\ svLastSend.id < MaxStartTells
        /\ svMailbox' = t.mailbox
        /\ svLastSend' = [kind |-> kind, id |-> id, result |-> t.result,
                          pc |-> svPc]
        /\ svSent' = IF t.result = "SendError" THEN svSent
                     ELSE Append(svSent, id)
        /\ svEarly' = IF t.result # "SendError" /\ svPc \in StartupPcs
                         THEN svEarly \cup {id} ELSE svEarly
        /\ UNCHANGED <<svPc, svPolicy, svExpired, svRetries, svError, svLog,
                       svClosed, svInflight, svHandled, svRegistered, svCreate>>

\* Lines 37-45 and 68: pre_start; on failure under Stop, straight to line 91.
StartPreStart(ok) ==
    /\ svPc = "pre_start"
    /\ svError' = IF ok THEN 0 ELSE 1
    /\ svLog' = IF ok
                   THEN svLog \o <<LogEntry("pre_start", 0, TRUE),
                                   LogEntry("loop", 0, TRUE)>>
                   ELSE Append(svLog, LogEntry("pre_start", 0, FALSE))
    /\ svPc' = IF ok THEN "recv"
               ELSE IF svPolicy.kind = "Stop" THEN "cleanup"
               ELSE "retry_check"
    /\ UNCHANGED <<svPolicy, svExpired, svRetries, svMailbox, svClosed,
                   svInflight, svHandled, svSent, svEarly, svLastSend,
                   svRegistered, svCreate>>

\* Line 51, and line 68 when the loop is left.
StartRetryCheck ==
    /\ svPc = "retry_check"
    /\ IF retry_loop_cond(svRetries, svPolicy.max_retries, svError)
          THEN svPc' = "backoff" /\ UNCHANGED svLog
          ELSE IF svError = 0
                  THEN /\ svPc' = "recv"
                       /\ svLog' = Append(svLog, LogEntry("loop", 0, TRUE))
                  ELSE svPc' = "cleanup" /\ UNCHANGED svLog
    /\ UNCHANGED <<svPolicy, svExpired, svRetries, svError, svMailbox,
                   svClosed, svInflight, svHandled, svSent, svEarly,
                   svLastSend, svRegistered, svCreate>>

\* Lines 53-56: next_backoff() and the sleep.
StartBackoff ==
    /\ svPc = "backoff"
    /\ \E b \in next_backoff(svPolicy.strategy, svExpired) :
          /\ svExpired' = b.expired
          /\ svLog' = Append(svLog, LogEntry("backoff", 0, b.duration = "some"))
          /\ svPc' = after_backoff(b.duration)
    /\ UNCHANGED <<svPolicy, svRetries, svError, svMailbox, svClosed,
                   svInflight, svHandled, svSent, svEarly, svLastSend,
                   svRegistered, svCreate>>

\* Lines 57-61: retries += 1; ctx.restart passes start_error to pre_restart.
StartRestart(ok) ==
    /\ svPc = "restart"
    /\ svRetries' = svRetries + 1
    /\ svLog' = Append(svLog, LogEntry("pre_restart", svError, ok))
    /\ svError' = IF ok THEN 0 ELSE svRetries + 2
    /\ svPc' = "retry_check"
    /\ UNCHANGED <<svPolicy, svExpired, svMailbox, svClosed, svInflight,
                   svHandled, svSent, svEarly, svLastSend, svRegistered,
                   svCreate>>

\* Line 80: receiver.recv() yields an envelope.
StartRecv ==
    /\ svPc = "recv"
    /\ svMailbox # <<>>
    /\ svInflight' = {mailbox_recv(svMailbox).msg}
    /\ svMailbox' = mailbox_recv(svMailbox).rest
    /\ svPc' = "handle"
    /\ UNCHANGED <<svPolicy, svExpired, svRetries, svError, svLog, svClosed,
                   svHandled, svSent, svEarly, svLastSend, svRegistered,
                   svCreate>>

\* Line 81: msg.handle; the reply of an ask is sent on its reply channel.
StartHandle ==
    /\ svPc = "handle"
    /\ \E env \in svInflight :
          /\ svHandled' = Append(svHandled, env.id)
          /\ svLastSend' = IF env.kind = "ask" /\ svLastSend.id = env.id
                              THEN [svLastSend EXCEPT !.result = "Ok"]
                              ELSE svLastSend
    /\ svInflight' = {}
    /\ svPc' = "recv"
    /\ UNCHANGED <<svPolicy, svExpired, svRetries, svError, svLog, svMailbox,
                   svClosed, svSent, svEarly, svRegistered, svCreate>>

\* Line 80: recv() yields None (closed and empty).
StartLoopEnd ==
    /\ svPc = "recv"
    /\ svMailbox = <<>>
    /\ svClosed
    /\ svPc' = "post_stop"
    /\ UNCHANGED <<svPolicy, svExpired, svRetries, svError, svLog, svMailbox,
                   svClosed, svInflight, svHandled, svSent, svEarly,
                   svLastSend, svRegistered, svCreate>>

\* Line 85.
StartPostStop ==
    /\ svPc = "post_stop"
    /\ svLog' = Append(svLog, LogEntry("post_stop", 0, TRUE))
    /\ svPc' = "unregister"
    /\ UNCHANGED <<svPolicy, svExpired, svRetries, svError, svMailbox,
                   svClosed, svInflight, svHandled, svSent, svEarly,
                   svLastSend, svRegistered, svCreate>>

\* Line 86: system.stop_actor(&self.path).
StartUnregister ==
    /\ svPc = "unregister"
    /\ svRegistered' = FALSE
    /\ svClosed' = TRUE
    /\ svPc' = "cleanup"
    /\ UNCHANGED <<svPolicy, svExpired, svRetries, svError, svLog, svMailbox,
                   svInflight, svHandled, svSent, svEarly, svLastSend,
                   svCreate>>

\* A variant that leaves the receiver open.
StartCleanup_no_close ==
    /\ svPc = "cleanup"
    /\ svPc' = "done"
    /\ UNCHANGED <<svPolicy, svExpired, svRetries, svError, svLog, svMailbox,
                   svClosed, svInflight, svHandled, svSent, svEarly,
                   svLastSend, svRegistered, svCreate>>

\* Line 91: self.receiver.close().
StartCleanup ==
    /\ svPc = "cleanup"
    /\ svClosed' = TRUE
    /\ svPc' = "done"
    /\ UNCHANGED <<svPolicy, svExpired, svRetries, svError, svLog, svMailbox,
                   svInflight, svHandled, svSent, svEarly, svLastSend,
                   svRegistered, svCreate>>

\* stop_actor(path) by another task: the entry is removed, the mailbox closed.
StartStopActor ==
    /\ svRegistered
    /\ svRegistered' = FALSE
    /\ svClosed' = TRUE
    /\ UNCHANGED <<svPc, svPolicy, svExpired, svRetries, svError, svLog,
                   svMailbox, svInflight, svHandled, svSent, svEarly,
                   svLastSend, svCreate>>

\* The runner's own steps.
StartRunner ==
    \/ \E ok \in BOOLEAN : StartPreStart(ok)
    \/ StartRetryCheck
    \/ StartBackoff
    \/ \E ok \in BOOLEAN : StartRestart(ok)
    \/ StartRecv
    \/ StartHandle
    \/ StartLoopEnd
    \/ StartPostStop
    \/ StartUnregister
    \/ StartCleanup

StartNext ==
    \/ \E policy \in Policies : StartCreate(policy)
    \/ \E kind \in {"tell", "ask"} : StartSend(kind)
    \/ StartStopActor
    \/ StartRunner

(***************************************************************************)
(* actor_system/actor/runner.rs, lines 68-91: the receive loop of an actor *)
(* whose class declares an idle timeout (A::timeout() is Some).  Time is   *)
(* counted in ticks; idWaited is the time the pending                      *)
(* timeout(timeout, recv()) has been waiting.                              *)
(***************************************************************************)
\* A::timeout(), in ticks.
IdleTimeout == 3
\* Messages told to the actor.
MaxIdleTells == 2

VARIABLES
    idPc,        \* where the runner is
    idWaited,    \* ticks since the pending timeout(..) was created
    idQuiet,     \* history: ticks since the loop began or a handler ended
    idMailbox,   \* the envelopes buffered in the mailbox
    idClosed,    \* the mailbox is closed
    idRegistered,\* the path is in the registry
    idSent,      \* envelopes enqueued so far
    idLast,      \* history: the result of the last tell and where the runner was
    idLog        \* history: envelopes handled, the end of the loop, post_stop

idVars == <<idPc, idWaited, idQuiet, idMailbox, idClosed, idRegistered, idSent,
            idLast, idLog>>

IdleInit ==
    /\ idPc = "idle"
    /\ idWaited = 0
    /\ idQuiet = 0
    /\ idMailbox = <<>>
    /\ idClosed = FALSE
    /\ idRegistered = FALSE
    /\ idSent = 0
    /\ idLast = [result |-> "none", pc |-> "idle"]
    /\ idLog = <<>>

\* A variant in which the timeout goes on counting from where it was.
timeout_after_handle_continues(waited) == waited

\* Lines 73-74: every turn of the loop creates timeout(timeout, recv()) anew;
\* the time it has waited starts at zero.
timeout_after_handle(waited) == 0

\* tokio::time::timeout polls recv() first: an envelope that is there is
\* returned; Err(Elapsed) is returned when none is there and the time is up.
timeout_elapsed(mb, waited) == mb = <<>> /\ waited >= IdleTimeout

\* create_actor: the path is registered and start is spawned.
IdleCreate ==
    /\ idPc = "idle"
    /\ idPc' = "pre_start"
    /\ idRegistered' = TRUE
    /\ UNCHANGED <<idWaited, idQuiet, idMailbox, idClosed, idSent, idLast, idLog>>

\* Lines 37-45 and 68 (supervision Stop): pre_start; the loop begins at line
\* 73 if it succeeded.
IdlePreStart(ok) ==
    /\ idPc = "pre_start"
    /\ idPc' = IF ok THEN "recv" ELSE "cleanup"
    /\ idLog' = Append(idLog, [kind |-> "pre_start", ok |-> ok])
    /\ idWaited' = 0
    /\ idQuiet' = 0
    /\ UNCHANGED <<idMailbox, idClosed, idRegistered, idSent, idLast>>

\* ActorRef::tell by a holder of the reference.
IdleTell ==
    LET t == tell(idMailbox, idClosed, idSent + 1)
    IN  /\ idPc # "idle"
        /\ idSent < MaxIdleTells
        /\ idMailbox' = t.mailbox
        /\ idSent' = IF t.result = "Ok" THEN idSent + 1 ELSE idSent
        /\ idLast' = [result |-> t.result, pc |-> idPc, quiet |-> idQuiet]
        /\ UNCHANGED <<idPc, idWaited, idQuiet, idClosed, idRegistered, idLog>>

\* One tick passes while the runner waits on the mailbox.
IdleTick ==
    /\ idPc = "recv"
    /\ idWaited < IdleTimeout
    /\ idWaited' = idWaited + 1
    /\ idQuiet' = idQuiet + 1
    /\ UNCHANGED <<idPc, idMailbox, idClosed, idRegistered, idSent, idLast, idLog>>

\* Lines 73-74: Ok(Some(msg)).
IdleRecv ==
    /\ idPc = "recv"
    /\ idMailbox # <<>>
    /\ idPc' = "handle"
    /\ idMailbox' = Tail(idMailbox)
    /\ idLog' = Append(idLog, [kind |-> "handle", id |-> Head(idMailbox),
                               quiet |-> idQuiet])
    /\ UNCHANGED <<idWaited, idQuiet, idClosed, idRegistered, idSent, idLast>>

\* Line 76: the handler ends and the loop turns.
IdleHandle ==
    /\ idPc = "handle"
    /\ idPc' = "recv"
    /\ idWaited' = timeout_after_handle(idWaited)
    /\ idQuiet' = 0
    /\ UNCHANGED <<idMailbox, idClosed, idRegistered, idSent, idLast, idLog>>

\* Lines 73-78: Err(Elapsed); the loop ends.
IdleTimedOut ==
    /\ idPc = "recv"
    /\ timeout_elapsed(idMailbox, idWaited)
    /\ idPc' = "post_stop"
    /\ idLog' = Append(idLog, [kind |-> "timeout", quiet |-> idQuiet])
    /\ UNCHANGED <<idWaited, idQuiet, idMailbox, idClosed, idRegistered, idSent,
                   idLast>>

\* Lines 73-74: Ok(None), the mailbox is closed and empty; the loop ends.
IdleLoopEnd ==
    /\ idPc = "recv"
    /\ idMailbox = <<>>
    /\ idClosed
    /\ idPc' = "post_stop"
    /\ idLog' = Append(idLog, [kind |-> "closed", quiet |-> idQuiet])
    /\ UNCHANGED <<idWaited, idQuiet, idMailbox, idClosed, idRegistered, idSent,
                   idLast>>

\* Line 85.
IdlePostStop ==
    /\ idPc = "post_stop"
    /\ idPc' = "unregister"
    /\ idLog' = Append(idLog, [kind |-> "post_stop"])
    /\ UNCHANGED <<idWaited, idQuiet, idMailbox, idClosed, idRegistered, idSent,
                   idLast>>

\* Line 86: system.stop_actor(&self.path).
IdleUnregister ==
    /\ idPc = "unregister"
    /\ idPc' = "cleanup"
    /\ idRegistered' = FALSE
    /\ idClosed' = TRUE
    /\ UNCHANGED <<idWaited, idQuiet, idMailbox, idSent, idLast, idLog>>

\* Line 91: self.receiver.close().
IdleCleanup ==
    /\ idPc = "cleanup"
    /\ idPc' = "done"
    /\ idClosed' = TRUE
    /\ UNCHANGED <<idWaited, idQuiet, idMailbox, idRegistered, idSent, idLast,
                   idLog>>

\* stop_actor(path) by another task.
IdleStopActor ==
    /\ idRegistered
    /\ idRegistered' = FALSE
    /\ idClosed' = TRUE
    /\ UNCHANGED <<idPc, idWaited, idQuiet, idMailbox, idSent, idLast, idLog>>

\* The steps of the runner's task, and the passing of time.
IdleRunner ==
    \/ \E ok \in BOOLEAN : IdlePreStart(ok)
    \/ IdleTick
    \/ IdleRecv
    \/ IdleHandle
    \/ IdleTimedOut
    \/ IdleLoopEnd
    \/ IdlePostStop
    \/ IdleUnregister
    \/ IdleCleanup

IdleNext ==
    \/ IdleCreate
    \/ IdleTell
    \/ IdleStopActor
    \/ IdleRunner

(***************************************************************************)
(* network/broadcast.rs, lines 24-34: the snapshot maintainer on a bus     *)
(* consumer that can lag.  The consumer (bus.rs is not among the sources;  *)
(* modelled from the specification, section 4.4) buffers BusCapacity       *)
(* events; a publication on a full buffer drops the oldest event, and the  *)
(* next receive reports the loss as a lag signal before it yields the      *)
(* events that are left.                                                   *)
(***************************************************************************)
\* The capacity of the bus in this part (main.rs line 35 gives it 1000).
BusCapacity == 2
\* Events published in SpecLag.
MaxLagEvents == 4

VARIABLES
    lgBuf,       \* the events buffered for the maintainer's consumer
    lgLost,      \* events dropped since the consumer's last receive
    lgBusClosed, \* every publisher is gone: the stream is closed
    lgPc,        \* "running", or "exited" when the maintainer's loop has ended
    lgTable,     \* the snapshot table
    lgPublished, \* events published so far
    lgLog        \* history: what each receive of the maintainer yielded

lgVars == <<lgBuf, lgLost, lgBusClosed, lgPc, lgTable, lgPublished, lgLog>>

LagEvents ==
    {PlayerJoined("player_a", PositionDefault),
     PlayerMoved("player_a", Position(15, 0, 0), Position(10, 0, 0)),
     PlayerLeft("player_a"),
     PlayerJoined("player_b", PositionDefault)}

LagInit ==
    /\ lgBuf = <<>>
    /\ lgLost = 0
    /\ lgBusClosed = FALSE
    /\ lgPc = "running"
    /\ lgTable = [p \in Players |-> NoEntry]
    /\ lgPublished = 0
    /\ lgLog = <<>>

\* publish(event) as the consumer sees it: the event is buffered; on a full
\* buffer the oldest event is lost.
consumer_publish(buf, lost, event) ==
    IF Len(buf) < BusCapacity
        THEN [buf |-> Append(buf, event), lost |-> lost]
        ELSE [buf |-> Append(Tail(buf), event), lost |-> lost + 1]

\* events.recv() when it is ready: the lag signal if events were lost, else
\* the oldest buffered event, else (closed and empty) the end of the stream.
consumer_recv(buf, lost, busClosed) ==
    IF lost > 0 THEN [result |-> "Lagged", buf |-> buf]
    ELSE IF buf # <<>> THEN [result |-> "Ok", event |-> Head(buf), buf |-> Tail(buf)]
    ELSE [result |-> "Closed", buf |-> buf]

consumer_ready(buf, lost, busClosed) == lost > 0 \/ buf # <<>> \/ busClosed

\* An actor publishes an event.
LagPublish(event) ==
    LET r == consumer_publish(lgBuf, lgLost, event)
    IN  /\ ~lgBusClosed
        /\ lgPublished < MaxLagEvents
        /\ lgPublished' = lgPublished + 1
        /\ lgBuf' = IF lgPc = "running" THEN r.buf ELSE lgBuf
        /\ lgLost' = IF lgPc = "running" THEN r.lost ELSE lgLost
        /\ UNCHANGED <<lgBusClosed, lgPc, lgTable, lgLog>>

\* The last publisher is dropped.
LagCloseBus ==
    /\ ~lgBusClosed
    /\ lgBusClosed' = TRUE
    /\ UNCHANGED <<lgBuf, lgLost, lgPc, lgTable, lgPublished, lgLog>>

\* Lines 28-33: one turn of the maintainer's loop: Ok(event) is applied,
\* Err(_) ends the loop.
LagMaintainerTurn ==
    LET r == consumer_recv(lgBuf, lgLost, lgBusClosed)
    IN  /\ lgPc = "running"
        /\ consumer_ready(lgBuf, lgLost, lgBusClosed)
        /\ lgBuf' = r.buf
        /\ lgLost' = 0
        /\ lgLog' = Append(lgLog, r.result)
        /\ IF r.result = "Ok"
              THEN /\ lgTable' = handle_game_event(r.event, lgTable)
                   /\ UNCHANGED lgPc
              ELSE /\ lgPc' = "exited"
                   /\ UNCHANGED lgTable
        /\ UNCHANGED <<lgBusClosed, lgPublished>>

LagNext ==
    \/ \E event \in LagEvents : LagPublish(event)
    \/ LagCloseBus
    \/ LagMaintainerTurn

(***************************************************************************)
(* actor_system/actor/path.rs: ActorPath, a vector of segments.  A segment *)
(* is any string: From<&str> drops the empty and blank ones, Div pushes    *)
(* its right-hand side as it is.                                           *)
(***************************************************************************)
\* The longest path SpecPath draws.
MaxPathLen == 3

PathSegments == {"user", "player-1", "a/b", " ", ""}

RECURSIVE PathsOfLen(_)
PathsOfLen(n) ==
    IF n = 0 THEN {<<>>}
    ELSE {Append(q, seg) : q \in PathsOfLen(n - 1), seg \in PathSegments}

ActorPaths == UNION {PathsOfLen(n) : n \in 0..MaxPathLen}

\* A variant that returns the path itself for a path of one segment.
parent_of_top_is_self(path) ==
    IF Len(path) > 1 THEN SubSeq(path, 1, Len(path) - 1) ELSE path

\* ActorPath::parent
parent(path) ==
    IF Len(path) > 1 THEN SubSeq(path, 1, Len(path) - 1) ELSE <<>>

\* ActorPath::key: the last segment, the empty string for the empty path.
key(path) == IF path = <<>> THEN "" ELSE path[Len(path)]

\* Div<&str> for ActorPath
div(path, rhs) == Append(path, rhs)

VARIABLES
    ptIn,        \* the path of the last call ([called |-> FALSE] before any)
    ptOut        \* its parent, its key and parent / key

ptVars == <<ptIn, ptOut>>

PathInit ==
    /\ ptIn = [called |-> FALSE]
    /\ ptOut = [called |-> FALSE]

PathCall(path) ==
    /\ ptIn' = [called |-> TRUE, path |-> path]
    /\ ptOut' = [called |-> TRUE, parent |-> parent(path), key |-> key(path),
                 joined |-> div(parent(path), key(path))]

PathNext == \E path \in ActorPaths : PathCall(path)

(***************************************************************************)
(* network/broadcast.rs: handle_game_event called on its own, on any table *)
(* that events can build and with any event.                               *)
(***************************************************************************)
VARIABLES
    evTable,     \* the snapshot table
    evLast       \* history: the last event applied and the table before it

evVars == <<evTable, evLast>>

EventInputs ==
    {PlayerJoined(p, PositionDefault) : p \in Players}
    \cup {PlayerMoved(p, pos, Position(10, 0, 0)) :
            p \in Players, pos \in {Position(15, 0, 0), Position(40, 0, 0)}}
    \cup {PlayerLeft(p) : p \in Players}

EventInit ==
    /\ evTable = [p \in Players |-> NoEntry]
    /\ evLast = [called |-> FALSE]

EventCall(event) ==
    /\ evTable' = handle_game_event(event, evTable)
    /\ evLast' = [called |-> TRUE, event |-> event, before |-> evTable]

EventNext == \E event \in EventInputs : EventCall(event)

(***************************************************************************)
(* actor_system/actor/mod.rs, handler.rs and runner.rs: ActorRef::ask.     *)
(* An ask envelope carries the sender of a one-shot reply channel; the     *)
(* caller awaits the receiver, and may give the await up (ask has no       *)
(* timeout of its own; callers wrap it).  The actor counts the messages it *)
(* has handled and answers with the count.  Its supervision is Stop.  The  *)
(* task that runs ActorRunner::start owns the runner (system.rs is not     *)
(* among the sources; modelled from the specification, sections 4.5 and    *)
(* 9): when start returns the runner is dropped, and with it the receiver  *)
(* and the envelopes still queued.                                         *)
(***************************************************************************)
\* Messages the callers send to the actor.
MaxAskSends == 3

VARIABLES
    akPc,        \* where the runner is in ActorRunner::start
    akMailbox,   \* the envelopes buffered in the mailbox
    akClosed,    \* the mailbox is closed
    akRegistered,\* the path is in the registry
    akState,     \* the actor's state: the messages it has handled
    akInflight,  \* the envelope being handled (a set of at most one)
    akSent,      \* messages sent so far, whatever the result
    akAsk,       \* for each message id, where its ask stands
    akHandled,   \* history: the ids handled with the handler's responses
    akLast       \* history: the last send and whether the mailbox was closed

akVars == <<akPc, akMailbox, akClosed, akRegistered, akState, akInflight, akSent,
            akAsk, akHandled, akLast>>

AskIds == 1..MaxAskSends

\* Not an ask, or not sent yet.
NoAsk == [st |-> "none"]

AskInit ==
    /\ akPc = "idle"
    /\ akMailbox = <<>>
    /\ akClosed = FALSE
    /\ akRegistered = FALSE
    /\ akState = 0
    /\ akInflight = {}
    /\ akSent = 0
    /\ akAsk = [id \in AskIds |-> NoAsk]
    /\ akHandled = <<>>
    /\ akLast = [kind |-> "none"]

\* A variant that unwraps the result of rsvp.send.
rsvp_send_unwrap(kind, waiting, result) ==
    IF kind = "tell" THEN [reply |-> "none", fatal |-> FALSE]
    ELSE IF waiting THEN [reply |-> "sent", value |-> result, fatal |-> FALSE]
    ELSE [reply |-> "failed", fatal |-> TRUE]

\* handler.rs lines 42-46: the result is sent on the reply channel if the
\* envelope has one; the send fails if the caller has dropped the receiver,
\* and the failure is logged.
rsvp_send(kind, waiting, result) ==
    IF kind = "tell" THEN [reply |-> "none", fatal |-> FALSE]
    ELSE IF waiting THEN [reply |-> "sent", value |-> result, fatal |-> FALSE]
    ELSE [reply |-> "failed", fatal |-> FALSE]

\* mod.rs lines 169-171: what the await of the reply receiver gives when the
\* sender is dropped with its envelope ("at" tells the SendError of the
\* await from the one of the send, line 167).
ask_sender_dropped(ask) ==
    IF ask.st = "waiting" THEN [st |-> "SendError", at |-> "await"] ELSE ask

\* A variant in which the queued envelopes outlive the runner.
runner_dropped_leaks(mb, asks) == asks

\* The runner is dropped: the receiver is dropped with the envelopes still
\* queued, and each reply sender with its envelope.
runner_dropped(mb, asks) ==
    [id \in AskIds |->
        IF \E k \in DOMAIN mb : mb[k].id = id
            THEN ask_sender_dropped(asks[id]) ELSE asks[id]]

\* create_actor: the path is registered and start is spawned.
AskCreate ==
    /\ akPc = "idle"
    /\ akPc' = "pre_start"
    /\ akRegistered' = TRUE
    /\ UNCHANGED <<akMailbox, akClosed, akState, akInflight, akSent, akAsk,
                   akHandled, akLast>>

\* ActorRef::tell, or ActorRef::ask up to the await (mod.rs lines 163-168).
AskSend(kind) ==
    LET id == akSent + 1
        env == [id |-> id, kind |-> kind]
        t == IF kind = "tell" THEN tell(akMailbox, akClosed, env)
             ELSE ask_send(akMailbox, akClosed, env)
    IN  /\ akPc # "idle"
        /\ akSent < MaxAskSends
        /\ akSent' = id
        /\ akMailbox' = t.mailbox
        /\ akAsk' = [akAsk EXCEPT ![id] =
                        IF kind = "tell" THEN NoAsk
                        ELSE IF t.result = "SendError"
                            THEN [st |-> "SendError", at |-> "send"]
                        ELSE [st |-> "waiting"]]
        /\ akLast' = [kind |-> kind, id |-> id, closed |-> akClosed,
                      result |-> t.result]
        /\ UNCHANGED <<akPc, akClosed, akRegistered, akState, akInflight,
                       akHandled>>

\* The caller of an ask drops the future before the reply has come (the
\* timeout it wrapped the ask in has expired): the reply receiver is dropped.
AskGiveUp(id) ==
    /\ akAsk[id].st = "waiting"
    /\ akAsk' = [akAsk EXCEPT ![id] = [st |-> "gave_up"]]
    /\ UNCHANGED <<akPc, akMailbox, akClosed, akRegistered, akState, akInflight,
                   akSent, akHandled, akLast>>

\* runner.rs lines 37-45 and 68: pre_start under supervision Stop.
AskPreStart(ok) ==
    /\ akPc = "pre_start"
    /\ akPc' = IF ok THEN "recv" ELSE "cleanup"
    /\ UNCHANGED <<akMailbox, akClosed, akRegistered, akState, akInflight,
                   akSent, akAsk, akHandled, akLast>>

\* runner.rs line 80: receiver.recv() yields an envelope.
AskRecv ==
    /\ akPc = "recv"
    /\ akMailbox # <<>>
    /\ akInflight' = {mailbox_recv(akMailbox).msg}
    /\ akMailbox' = mailbox_recv(akMailbox).rest
    /\ akPc' = "handle"
    /\ UNCHANGED <<akClosed, akRegistered, akState, akSent, akAsk, akHandled,
                   akLast>>

\* runner.rs line 81 and handler.rs lines 39-47: the handler runs, then its
\* result goes to the reply channel.
AskHandle ==
    /\ akPc = "handle"
    /\ \E env \in akInflight :
          LET result == akState + 1
              r == rsvp_send(env.kind, akAsk[env.id].st = "waiting", result)
          IN  /\ akState' = result
              /\ akHandled' = Append(akHandled,
                                     [id |-> env.id, response |-> result,
                                      reply |-> r.reply])
              /\ akAsk' = IF r.reply = "sent"
                             THEN [akAsk EXCEPT ![env.id] =
                                      [st |-> "Ok", value |-> r.value]]
                             ELSE akAsk
              /\ akPc' = IF r.fatal THEN "panicked" ELSE "recv"
    /\ akInflight' = {}
    /\ UNCHANGED <<akMailbox, akClosed, akRegistered, akSent, akLast>>

\* runner.rs line 80: recv() yields None (closed and empty).
AskLoopEnd ==
    /\ akPc = "recv"
    /\ akMailbox = <<>>
    /\ akClosed
    /\ akPc' = "post_stop"
    /\ UNCHANGED <<akMailbox, akClosed, akRegistered, akState, akInflight,
                   akSent, akAsk, akHandled, akLast>>

\* runner.rs line 85.
AskPostStop ==
    /\ akPc = "post_stop"
    /\ akPc' = "unregister"
    /\ UNCHANGED <<akMailbox, akClosed, akRegistered, akState, akInflight,
                   akSent, akAsk, akHandled, akLast>>

\* runner.rs line 86: system.stop_actor(&self.path).
AskUnregister ==
    /\ akPc = "unregister"
    /\ akPc' = "cleanup"
    /\ akRegistered' = FALSE
    /\ akClosed' = TRUE
    /\ UNCHANGED <<akMailbox, akState, akInflight, akSent, akAsk, akHandled,
                   akLast>>

\* runner.rs line 91: self.receiver.close(); start returns.
AskCleanup ==
    /\ akPc = "cleanup"
    /\ akPc' = "returned"
    /\ akClosed' = TRUE
    /\ UNCHANGED <<akMailbox, akRegistered, akState, akInflight, akSent, akAsk,
                   akHandled, akLast>>

\* The task that ran start ends and drops the runner.
AskTaskEnd ==
    /\ akPc = "returned"
    /\ akPc' = "done"
    /\ akAsk' = runner_dropped(akMailbox, akAsk)
    /\ akMailbox' = <<>>
    /\ UNCHANGED <<akClosed, akRegistered, akState, akInflight, akSent,
                   akHandled, akLast>>

\* stop_actor(path) by another task.
AskStopActor ==
    /\ akRegistered
    /\ akRegistered' = FALSE
    /\ akClosed' = TRUE
    /\ UNCHANGED <<akPc, akMailbox, akState, akInflight, akSent, akAsk,
                   akHandled, akLast>>

\* The steps of the runner's task.
AskRunner ==
    \/ \E ok \in BOOLEAN : AskPreStart(ok)
    \/ AskRecv
    \/ AskHandle
    \/ AskLoopEnd
    \/ AskPostStop
    \/ AskUnregister
    \/ AskCleanup
    \/ AskTaskEnd

AskNext ==
    \/ AskCreate
    \/ \E kind \in {"tell", "ask"} : AskSend(kind)
    \/ \E id \in AskIds : AskGiveUp(id)
    \/ AskStopActor
    \/ AskRunner

(***************************************************************************)
(* The specifications.  Each runs one part of the program and leaves the   *)
(* variables of the others at their initial values.                        *)
(***************************************************************************)
\* The variables of the parts that follow the start-up part.
laterVars == <<idVars, lgVars, ptVars, evVars, akVars>>

LaterInit == IdleInit /\ LagInit /\ PathInit /\ EventInit /\ AskInit

vars == <<sysVars, plVars, rlVars, vlVars, tkVars, svVars, laterVars>>

OtherInit ==
    PlayerInit /\ RateInit /\ ValidateInit /\ TickInit /\ StartInit /\ LaterInit

Init == SysInit(MaxSysFrames) /\ OtherInit

Next == SysNext(Sessions) /\ UNCHANGED <<plVars, rlVars, vlVars, tkVars, svVars, laterVars>>

\* Two sessions, for one player or for two.
Spec == Init /\ [][Next]_vars

SoloInit == SysInit(MaxSoloFrames) /\ OtherInit

SoloNext == SysNext({1}) /\ UNCHANGED <<plVars, rlVars, vlVars, tkVars, svVars, laterVars>>

\* One session, reading more frames.
SpecSolo == SoloInit /\ [][SoloNext]_vars

SpecPlayer == Init /\ [][PlayerNext /\ UNCHANGED <<sysVars, rlVars, vlVars, tkVars, svVars, laterVars>>]_vars

SpecRate == Init /\ [][RateNext /\ UNCHANGED <<sysVars, plVars, vlVars, tkVars, svVars, laterVars>>]_vars

\* The frames arrive within one rate-limit window: the window plays no
\* part in what a tick collects.
TickNext ==
    \/ SysSteps(Sessions, SysMoves, {0}) /\ UNCHANGED tkVars
    \/ Tick

\* The sessions, the actors and the maintainer, with the tick loop.
SpecTick ==
    Init /\ [][TickNext /\ UNCHANGED <<plVars, rlVars, vlVars, svVars, laterVars>>]_vars

StartStep == StartNext /\ UNCHANGED <<sysVars, plVars, rlVars, vlVars, tkVars, laterVars>>

\* The supervised start-up of one actor.
SpecStart == Init /\ [][StartStep]_vars

StartRunnerStep ==
    StartRunner /\ UNCHANGED <<sysVars, plVars, rlVars, vlVars, tkVars, laterVars>>

\* The same, the runner's task being scheduled whenever it can take a step.
SpecStartFair == Init /\ [][StartStep]_vars /\ WF_vars(StartRunnerStep)

SpecValidate ==
    Init /\ [][ValidateNext /\ UNCHANGED <<sysVars, plVars, rlVars, tkVars, svVars, laterVars>>]_vars

\* The variables of every part before the idle-timeout part.
firstVars == <<sysVars, plVars, rlVars, vlVars, tkVars, svVars>>

IdleStep == IdleNext /\ UNCHANGED <<firstVars, lgVars, ptVars, evVars, akVars>>

\* The receive loop of an actor with an idle timeout.
SpecIdle == Init /\ [][IdleStep]_vars

IdleRunnerStep == IdleRunner /\ UNCHANGED <<firstVars, lgVars, ptVars, evVars, akVars>>

\* The same, the runner's task being scheduled and time passing.
SpecIdleFair == Init /\ [][IdleStep]_vars /\ WF_vars(IdleRunnerStep)

KickInit == SysInit(MaxKickFrames) /\ OtherInit

KickNext ==
    SysSteps({1}, KickMoves, {0})
        /\ UNCHANGED <<plVars, rlVars, vlVars, tkVars, svVars, laterVars>>

\* One session whose client sends one violation after another.
SpecKick == KickInit /\ [][KickNext]_vars

MixInit == SysInit(MaxMixFrames) /\ OtherInit

MixNext ==
    SysSteps({1}, MixMoves, {0})
        /\ UNCHANGED <<plVars, rlVars, vlVars, tkVars, svVars, laterVars>>

\* One session whose client sends Moves of every class.
SpecMix == MixInit /\ [][MixNext]_vars

MixTickNext ==
    \/ SysSteps({1}, MixMoves, {0}) /\ UNCHANGED tkVars
    \/ Tick

\* One session whose client sends Moves of every class, with the tick loop.
SpecMixTick ==
    MixInit /\ [][MixTickNext /\ UNCHANGED <<plVars, rlVars, vlVars, svVars, laterVars>>]_vars

\* The maintainer on a consumer that can lag.
SpecLag == Init /\ [][LagNext /\ UNCHANGED <<firstVars, idVars, ptVars, evVars, akVars>>]_vars

\* ActorPath's functions called on their own.
SpecPath == Init /\ [][PathNext /\ UNCHANGED <<firstVars, idVars, lgVars, evVars, akVars>>]_vars

\* handle_game_event called on its own.
SpecEvents == Init /\ [][EventNext /\ UNCHANGED <<firstVars, idVars, lgVars, ptVars, akVars>>]_vars

AskStep == AskNext /\ UNCHANGED <<firstVars, idVars, lgVars, ptVars, evVars>>

\* One actor and the callers of tell and ask.
SpecAsk == Init /\ [][AskStep]_vars

AskRunnerStep == AskRunner /\ UNCHANGED <<firstVars, idVars, lgVars, ptVars, evVars>>

\* The runner's task is scheduled as long as it can take a step.
SpecAskFair == Init /\ [][AskStep]_vars /\ WF_vars(AskRunnerStep)

(***************************************************************************)
(* Claims about the Player Actor (SpecPlayer).                             *)
(***************************************************************************)
ViolationClasses == {"SpeedHack", "Teleport"}

Handled == plLast.class # "none"

\* C7: a Move classified Valid leaves violations at zero, and every other
\* message (a Move of another class, GetState, Kick, SendMessage) leaves
\* violations equal to or larger than it was before the handler ran.
C7_ValidResetsElseNonDecreasing ==
    Handled =>
        /\ plLast.class = "Valid" => pa.violations = 0
        /\ plLast.class # "Valid" => pa.violations >= plLast.before.violations

\* C7 witness: a Valid move handled by an actor that had violations.
C7_Witness ==
    /\ Handled
    /\ plLast.class = "Valid"
    /\ plLast.before.violations >= 2
    /\ pa.violations = 0

\* C8: after n consecutive SpeedHack or Teleport moves from violations = 0
\* the actor has violations = n and has sent n Error frames; no Kicked frame
\* is sent before the tenth, and at n = MAX_VIOLATIONS exactly one has been
\* sent, by the tenth move's handler right after its Error frame.
C8_RunCountsAndSingleKick ==
    plRun.pure =>
        /\ pa.violations = plRun.n
        /\ plRun.errs = plRun.n
        /\ plRun.n < MAX_VIOLATIONS => plRun.kicks = 0
        /\ plRun.n = MAX_VIOLATIONS =>
              /\ plRun.kicks = 1
              /\ plLast.class \in ViolationClasses
              /\ Len(plLast.frames) = 2
              /\ plLast.frames[1].type = "Error"
              /\ plLast.frames[1].message[3] = MAX_VIOLATIONS
              /\ plLast.frames[2] = KickedFrame("Too many anti-cheat violations")

\* C8 witness: ten violation moves in a row, the tenth just handled.
C8_Witness ==
    /\ plRun.pure
    /\ plRun.n = MAX_VIOLATIONS
    /\ pa.violations = MAX_VIOLATIONS
    /\ plRun.kicks = 1

\* C9: a Move classified SpeedHack or Teleport leaves position and velocity
\* as they were, adds exactly one to violations, sends exactly one Error
\* frame and publishes nothing.
C9_ViolationMoveEffect ==
    (Handled /\ plLast.class \in ViolationClasses) =>
        /\ pa.position = plLast.before.position
        /\ pa.velocity = plLast.before.velocity
        /\ pa.violations = plLast.before.violations + 1
        /\ CountType(plLast.frames, "Error") = 1
        /\ plLast.events = <<>>

\* C9 witness: a rejected move whose position and velocity differ from the
\* actor's (committed earlier by a Valid move).
C9_Witness ==
    /\ Handled
    /\ plLast.class = "SpeedHack"
    /\ plLast.before.position # PositionDefault
    /\ plLast.msg.position # plLast.before.position
    /\ plLast.msg.velocity # plLast.before.velocity

\* C10: a Move classified OutOfBounds changes nothing of the actor, sends
\* exactly the frame Error{"Position out of bounds"} (so no Kicked frame)
\* and publishes nothing, whatever the violations count.
C10_OutOfBoundsEffect ==
    (Handled /\ plLast.class = "OutOfBounds") =>
        /\ pa = plLast.before
        /\ plLast.frames = <<ErrorFrame("Position out of bounds")>>
        /\ plLast.events = <<>>

\* C10 witness: an OutOfBounds move handled at or above MAX_VIOLATIONS.
C10_Witness ==
    /\ Handled
    /\ plLast.class = "OutOfBounds"
    /\ plLast.before.violations >= MAX_VIOLATIONS
    /\ plLast.msg.velocity # plLast.before.velocity

(***************************************************************************)
(* Claims about the rate limiter (SpecRate).                               *)
(***************************************************************************)
MinOf(a, b) == IF a < b THEN a ELSE b

\* The Move frames of the current window told to the actor, in mailbox order.
ToldInWindow == SelectSeq(rlMailbox, LAMBDA id : id >= rlWinFirst)

\* Move frames that arrived in the current window.
ArrivedInWindow == rlArrived - rlWinFirst + 1

\* C6: between two rollovers of the window the Moves told to the actor are
\* exactly the first MAX_MOVES_PER_SECOND Moves of the window, in arrival
\* order (so at most 60); a Move beyond them is dropped: the mailbox and
\* the client's sink are as they were before it.
C6_FirstSixtyOfWindowTold ==
    /\ Len(ToldInWindow) <= MAX_MOVES_PER_SECOND
    /\ ToldInWindow =
          [i \in 1..MinOf(ArrivedInWindow, MAX_MOVES_PER_SECOND) |->
              rlWinFirst + i - 1]
    /\ (rlLast.kind = "Move" /\ ~rlLast.admitted) =>
          /\ rlMailbox = rlLast.mailboxBefore
          /\ rlSink = rlLast.sinkBefore
          /\ CountType(rlSink, "Error") = 0

\* C6 witness: a window with more than 60 Moves, the last one dropped.
C6_Witness ==
    /\ ArrivedInWindow > MAX_MOVES_PER_SECOND
    /\ rlLast.kind = "Move"
    /\ ~rlLast.admitted
    /\ Len(ToldInWindow) = MAX_MOVES_PER_SECOND
    /\ rlWinFirst > 1

(***************************************************************************)
(* Claims about the runner (SpecSolo).                                     *)
(***************************************************************************)
\* The handler log of an actor is begin, end, begin, end, ... with each end
\* closing the begin before it, and the ids begun in increasing order (the
\* ids of one mailbox increase in enqueue order).
Serialized(log) ==
    \A k \in DOMAIN log :
        /\ (k % 2 = 1) => log[k][1] = "begin"
        /\ (k % 2 = 0) => log[k] = <<"end", log[k - 1][2]>>
        /\ (k % 2 = 1 /\ k > 2) => log[k - 2][2] < log[k][2]

\* C1: the handlers of one actor run one at a time, in enqueue order: the
\* handler of an envelope begins only after the handler of every envelope
\* enqueued before it has ended, and never are two handlers in progress.
C1_HandlersSerialized ==
    \A i \in Sessions :
        /\ Cardinality(inflight[i]) <= 1
        /\ Serialized(hlog[i])

\* C1 witness: a second envelope was enqueued while the first was being
\* handled, and both handlers have run.
C1_Witness ==
    \E i \in Sessions :
        /\ Len(hlog[i]) >= 4
        /\ inflight[i] = {}
        /\ hlog[i][1][2] < hlog[i][3][2]

(***************************************************************************)
(* Claims about the actor system and the snapshot (Spec).                  *)
(***************************************************************************)
Probe == [id |-> 0, msg |-> MovePlayer(PositionDefault, PositionDefault, 1)]

Live(i) == aPc[i] \in {"recv", "handle", "post_stop"}

\* C3: no two live actors have the same path.
C3_OneLiveActorPerPath ==
    \A i, j \in Sessions :
        (i # j /\ Live(i) /\ Live(j)) => sPid[i] # sPid[j]

\* C4: the snapshot table has an entry for a player id exactly when the last
\* PlayerJoined or PlayerLeft the maintainer applied for the id is a
\* PlayerJoined (in every state, so also when all events are applied).
C4_EntryIffJoinedAndNotLeft ==
    \A p \in Players : snapshot[p].present <=> lastLife[p] = "PlayerJoined"

\* C4 witness: all events are applied; one player has joined and moved, and
\* a player has left.
C4_Witness ==
    /\ bus = <<>>
    /\ \E p \in Players :
          /\ snapshot[p].present
          /\ snapshot[p].position # PositionDefault
    /\ \E p \in Players : lastLife[p] = "PlayerLeft" /\ ~snapshot[p].present

\* C5: when two actors of one player id have published PlayerJoined, the
\* first one's PlayerLeft is on the bus before the second one's PlayerJoined;
\* and once every published event is applied, a player id with a live actor
\* has a snapshot entry.
C5_LeftBeforeJoinedOnReconnect ==
    /\ \A a, b \in DOMAIN lifeLog :
          (/\ a < b
           /\ lifeLog[a].type = "PlayerJoined"
           /\ lifeLog[b].type = "PlayerJoined"
           /\ sPid[lifeLog[a].src] = sPid[lifeLog[b].src])
          => \E c \in DOMAIN lifeLog :
                /\ a < c
                /\ c < b
                /\ lifeLog[c] = [type |-> "PlayerLeft", src |-> lifeLog[a].src]
    /\ \A i \in Sessions :
          (bus = <<>> /\ aPc[i] \in {"recv", "handle"} /\ ~closed[i])
          => snapshot[sPid[i]].present

(***************************************************************************)
(* Claims about the validator (SpecValidate).                              *)
(***************************************************************************)
\* The decision tree of the movement validator, on squared distances.
RefOutOfBounds(new_pos) ==
    \E k \in 1..3 : new_pos[k] > WORLD_BOUNDS \/ new_pos[k] < -WORLD_BOUNDS

RefDistanceSq(a, b) ==
    (b[1] - a[1]) * (b[1] - a[1]) + (b[2] - a[2]) * (b[2] - a[2])
        + (b[3] - a[3]) * (b[3] - a[3])

RefClass(in) ==
    LET d2 == RefDistanceSq(in.old_pos, in.new_pos)
        allowed10 == 3 * in.max_speed * in.dt10
    IN  CASE RefOutOfBounds(in.new_pos) -> "OutOfBounds"
          [] /\ ~RefOutOfBounds(in.new_pos)
             /\ d2 > TELEPORT_THRESHOLD * TELEPORT_THRESHOLD -> "Teleport"
          [] /\ ~RefOutOfBounds(in.new_pos)
             /\ d2 <= TELEPORT_THRESHOLD * TELEPORT_THRESHOLD
             /\ 100 * d2 > allowed10 * allowed10 -> "SpeedHack"
          [] OTHER -> "Valid"

\* The move from the origin to (x, 0, 0) with delta_time = 0.1 and
\* max_speed = MAX_SPEED was the last call.
CalledFromOrigin(x) ==
    /\ vIn.called
    /\ vIn.old_pos = Position(0, 0, 0)
    /\ vIn.new_pos = Position(x, 0, 0)
    /\ vIn.dt10 = 1
    /\ vIn.max_speed = MAX_SPEED

C12_SpeedHackAboveMaxSpeedTimesDelta ==
    /\ (/\ vIn.called
        /\ vOut.in_bounds
        /\ ~vOut.teleport
        /\ 100 * RefDistanceSq(vIn.old_pos, vIn.new_pos) >
              (vIn.max_speed * vIn.dt10) * (vIn.max_speed * vIn.dt10))
       => vOut.class = "SpeedHack"
    /\ CalledFromOrigin(15) => vOut.class = "SpeedHack"

\* C13: is_teleport with TELEPORT_THRESHOLD is true of the displacement of
\* 25 units from (0,0,0) to (25,0,0).
C13_TeleportAtTwentyFiveUnits ==
    (/\ vIn.called
     /\ vIn.old_pos = Position(0, 0, 0)
     /\ vIn.new_pos = Position(25, 0, 0))
    => vOut.teleport

(***************************************************************************)
(* Claims about the tick loop (SpecTick).                                  *)
(***************************************************************************)
UpdateIds == {e.player_id : e \in update.players}

\* C14: the StateUpdate of a tick has an entry with id p exactly when, at the
\* tick, the last PlayerJoined or PlayerLeft the maintainer had applied for p
\* was a PlayerJoined: every tick after PlayerJoined(p) is applied and before
\* PlayerLeft(p) is applied contains p, and no tick after PlayerLeft(p) is
\* applied contains p until a new PlayerJoined(p) is applied.
C14_TickEntryIffJoinedAndNotLeft ==
    update.sent =>
        \A p \in Players : p \in UpdateIds <=> update.life[p] = "PlayerJoined"

\* C14 witness: a tick after one player's PlayerLeft and another player's
\* PlayerJoined were applied.
C14_Witness ==
    /\ update.sent
    /\ \E p, q \in Players :
          /\ update.life[p] = "PlayerLeft"
          /\ p \notin UpdateIds
          /\ update.life[q] = "PlayerJoined"
          /\ q \in UpdateIds

(***************************************************************************)
(* Claims about the supervised start-up (SpecStart, SpecStartFair).        *)
(***************************************************************************)
\* The calls of pre_start and pre_restart, in order.
Attempts == SelectSeq(svLog, LAMBDA e : e.kind \in {"pre_start", "pre_restart"})

Logged(kind) == \E k \in DOMAIN svLog : svLog[k].kind = kind

StartupOver == svPc \notin (StartupPcs \cup {"idle"})

SomeAttemptOk == \E k \in DOMAIN Attempts : Attempts[k].ok

\* C15: under Retry(strategy), after a failed pre_start, pre_restart is
\* invoked at most max_retries times, each time with the error of the
\* attempt before it, and never after an attempt that succeeded; the receive
\* loop is entered exactly when pre_start or one of the pre_restarts
\* succeeded.
C15_RetriesBoundedAndLoopIffSuccess ==
    svPolicy.kind = "Retry" =>
        /\ Len(Attempts) <= svPolicy.max_retries + 1
        /\ \A k \in DOMAIN Attempts :
              /\ (k = 1) => Attempts[k].kind = "pre_start"
              /\ (k > 1) =>
                    /\ Attempts[k].kind = "pre_restart"
                    /\ ~Attempts[k - 1].ok
                    /\ Attempts[k].err = k - 1
        /\ Logged("loop") => SomeAttemptOk
        /\ StartupOver => (Logged("loop") <=> SomeAttemptOk)

\* C15 witness: two attempts failed, the second pre_restart succeeded and
\* the receive loop is entered.
C15_Witness ==
    /\ svPolicy.kind = "Retry"
    /\ Len(Attempts) = 3
    /\ Attempts[3].ok
    /\ Attempts[3].err = 2
    /\ svPc = "recv"

\* C16, as stated: once next_backoff() has returned none, no pre_restart is
\* invoked any more.
C16_NoneEndsRetries ==
    \A k, j \in DOMAIN svLog :
        (svLog[k].kind = "backoff" /\ ~svLog[k].ok /\ k < j)
        => svLog[j].kind # "pre_restart"

\* C16, amended: a next_backoff() of none only skips the sleep: whatever
\* next_backoff() returns, the pre_restart follows it, and the retries end
\* only when an attempt has succeeded or max_retries retries have been made.
C16_NoneOnlySkipsSleep ==
    /\ \A k \in DOMAIN svLog :
          svLog[k].kind = "backoff" =>
              IF k < Len(svLog) THEN svLog[k + 1].kind = "pre_restart"
              ELSE svPc = "restart"
    /\ (svPolicy.kind = "Retry" /\ StartupOver) =>
          \/ SomeAttemptOk
          \/ Len(Attempts) = svPolicy.max_retries + 1

\* C16 witness: under ExponentialBackoff a pre_restart was invoked after
\* next_backoff() returned none.
C16_Witness ==
    /\ svPolicy.kind = "Retry"
    /\ svPolicy.strategy = "ExponentialBackoff"
    /\ \E k \in DOMAIN svLog :
          /\ svLog[k].kind = "backoff"
          /\ ~svLog[k].ok
          /\ k < Len(svLog)
          /\ svLog[k + 1].kind = "pre_restart"

InflightIds == IF svInflight = {} THEN <<>> ELSE <<(CHOOSE e \in svInflight : TRUE).id>>

MailboxIds == [k \in DOMAIN svMailbox |-> svMailbox[k].id]

HandledIds == {svHandled[k] : k \in DOMAIN svHandled}

RecoveredStart ==
    /\ Logged("loop")
    /\ Len(Attempts) >= 2
    /\ Len(Attempts) <= svPolicy.max_retries + 1

\* C17: the ids enqueued are, in order, the ids handled, then the one being
\* handled, then those still in the mailbox (none is dropped or reordered);
\* and when a pre_restart succeeded after k < max_retries failed attempts,
\* every message enqueued before the start-up ended is eventually handled.
C17_NoMessageDroppedAcrossRetries ==
    /\ [](svSent = svHandled \o InflightIds \o MailboxIds)
    /\ \A id \in 1..MaxStartTells :
          (RecoveredStart /\ id \in svEarly) ~> (id \in HandledIds)

\* C17 witness: two messages enqueued during the failed attempts have been
\* handled after a pre_restart succeeded.
C17_Witness ==
    /\ RecoveredStart
    /\ Cardinality(svEarly) >= 2
    /\ svEarly \subseteq HandledIds

StopFailed ==
    /\ svPolicy.kind = "Stop"
    /\ svLog # <<>>
    /\ ~svLog[1].ok

StartProbe == [id |-> 0, kind |-> "tell"]

\* C18: when pre_start fails under Stop, no message is ever dispatched, the
\* loop is not entered and post_stop is not invoked; the runner goes to the
\* cleanup, after which the mailbox is closed and every tell or ask fails
\* with SendError.
C18_StopPolicyGoesToCleanup ==
    StopFailed =>
        /\ svHandled = <<>>
        /\ svInflight = {}
        /\ ~Logged("loop")
        /\ ~Logged("post_stop")
        /\ ~Logged("pre_restart")
        /\ svPc \in {"cleanup", "done"}
        /\ (svPc = "done") =>
              /\ tell(svMailbox, svClosed, StartProbe).result = "SendError"
              /\ ask_send(svMailbox, svClosed, StartProbe).result = "SendError"
              /\ (svLastSend.pc = "done") => svLastSend.result = "SendError"

\* C18 witness: after the cleanup an ask failed with SendError, a message
\* enqueued before it being still in the mailbox.
C18_Witness ==
    /\ StopFailed
    /\ svPc = "done"
    /\ svLastSend.pc = "done"
    /\ svLastSend.kind = "ask"
    /\ svLastSend.result = "SendError"
    /\ svMailbox # <<>>

\* C19: when the start-up has failed for good (pre_start failed and the
\* policy allows no further retry), create_actor has reported CreateError.
C19_CreateErrorOnFailedStart ==
    (svPc \in {"cleanup", "done"} /\ svError # 0) => svCreate = "CreateError"

(***************************************************************************)
(* Claims about create_actor (Spec).                                       *)
(***************************************************************************)
\* C20: create_actor on a path that has an actor in the registry is refused
\* (Exists): no runner is started for the caller, no pre_start runs (no
\* PlayerJoined is published), and the registry, the existing actor, its
\* mailbox and the bus are as they were.
C20_CreateOnLivePathRefused ==
    [][\A s \in Sessions :
          /\ (/\ sPc[s] = "create"
              /\ sPc'[s] # "create"
              /\ get_actor(registry, sPid[s]) # NoActor)
             => /\ sPc'[s] = "refused"
                /\ registry' = registry
                /\ actorVars' = actorVars
                /\ busVars' = busVars
          /\ sPc'[s] = "refused"
             => /\ aPc'[s] = "none"
                /\ \A k \in DOMAIN lifeLog' : lifeLog'[k].src # s]_vars

\* C20 witness: a create was refused while the actor registered at the path
\* is in its receive loop.
C20_Witness ==
    \E s, t \in Sessions :
        /\ s # t
        /\ sPc[s] = "refused"
        /\ sPid[s] = sPid[t]
        /\ get_actor(registry, sPid[s]) = t
        /\ aPc[t] \in {"recv", "handle"}

(***************************************************************************)
(* Claims about stopping an actor (SpecStart).                             *)
(***************************************************************************)
PostStops == Cardinality({k \in DOMAIN svLog : svLog[k].kind = "post_stop"})

\* C21: once a stop is requested (the mailbox is closed by stop_actor) the
\* runner takes no envelope from the mailbox any more: the handler in
\* progress ends, the envelopes still queued are not handled; post_stop runs
\* at most once, and when the runner has ended post_stop has run exactly
\* once after a start-up that succeeded, and the mailbox is closed.
C21_StopHandlesNothingQueued ==
    [][/\ (svClosed /\ svPc = "recv") => svPc' # "handle"
       /\ (svClosed /\ svPc = "handle") => svPc' \in {"handle", "recv"}
       /\ PostStops' <= 1
       /\ svPc' = "done" =>
             /\ svClosed'
             /\ Logged("loop")' => PostStops' = 1]_vars

(***************************************************************************)
(* Claims about the idle timeout (SpecIdle, SpecIdleFair).                 *)
(***************************************************************************)
IdleLogged(kind) == \E k \in DOMAIN idLog : idLog[k].kind = kind

IdlePostStops == Cardinality({k \in DOMAIN idLog : idLog[k].kind = "post_stop"})

IdleHandledIds == {idLog[k].id : k \in {j \in DOMAIN idLog : idLog[j].kind = "handle"}}

IdleLoopEntered == \E k \in DOMAIN idLog : idLog[k].kind = "pre_start" /\ idLog[k].ok

\* C22: the loop of an actor with an idle timeout ends by timeout only when
\* no envelope is there and a full timeout has passed since the loop began
\* or the last handler ended (an envelope that is there is handled, and the
\* wait after its handler starts from a full timeout); the end by timeout is
\* a normal shutdown: post_stop runs exactly once, then the path is out of
\* the registry and the mailbox closed.  An envelope told while the runner
\* is in the loop is handled, and the runner always reaches its end.
C22_IdleTimeoutIsNormalShutdown ==
    /\ [][/\ (idPc = "recv" /\ idPc' = "post_stop" /\ ~idClosed)
             => (idMailbox = <<>> /\ idQuiet = IdleTimeout)
          /\ (idPc = "recv" /\ idMailbox # <<>> /\ idPc' # "recv")
             => idPc' = "handle"
          /\ IdlePostStops' <= 1
          /\ (idPc' = "done" /\ IdleLoopEntered')
             => (IdlePostStops' = 1 /\ ~idRegistered' /\ idClosed')]_vars
    /\ (idPc = "recv") ~> (idPc = "done")
    /\ \A id \in 1..MaxIdleTells :
          (idSent = id /\ idLast.result = "Ok" /\ idLast.pc \in {"recv", "handle"})
          ~> (id \in IdleHandledIds)

\* C22 witness: an envelope that arrived one tick before the timeout was
\* handled, and the loop ended by timeout after it; the runner has ended.
C22_Witness ==
    /\ idPc = "done"
    /\ IdleLogged("timeout")
    /\ IdlePostStops = 1
    /\ ~idRegistered
    /\ idClosed
    /\ \E k \in DOMAIN idLog :
          idLog[k].kind = "handle" /\ idLog[k].quiet = IdleTimeout - 1

(***************************************************************************)
(* Claims about the maintainer and bus lag (SpecLag).                      *)
(***************************************************************************)
\* C23: a lag signal does not end the maintainer: it is discarded and the
\* events delivered after it are applied; the maintainer's loop has ended
\* only if its last receive found the stream closed, and no receive before
\* the last one ended it.
C23_LagDiscardedMaintainerRuns ==
    /\ lgPc = "exited" =>
          (lgLog # <<>> /\ lgLog[Len(lgLog)] = "Closed" /\ lgBusClosed)
    /\ \A k \in DOMAIN lgLog : lgLog[k] = "Lagged" => lgPc = "running"

(***************************************************************************)
(* Claims about the kick (SpecKick).                                       *)
(***************************************************************************)
KickedSent(s) == \E k \in DOMAIN outbox[s] : outbox[s][k].type = "Kicked"

BusHas(type, p) == \E k \in DOMAIN bus : bus[k].type = type /\ bus[k].player_id = p

\* C24: while the connection of a session whose client was sent Kicked is
\* open (the handler is in its read loop), the session's actor is in its
\* receive loop with its mailbox open (a tell succeeds), its path is in the
\* registry, the session's sink is in the connection registry, no
\* PlayerLeft of the player is published or applied, and, once its
\* PlayerJoined is applied, its snapshot entry is there.
C24_KickStopsNothing ==
    \A s \in Sessions :
        (KickedSent(s) /\ sPc[s] = "read") =>
            /\ aPc[s] \in {"recv", "handle"}
            /\ tell(mailbox[s], closed[s], Probe).result = "Ok"
            /\ get_actor(registry, sPid[s]) = s
            /\ connections[sPid[s]] = s
            /\ ~BusHas("PlayerLeft", sPid[s])
            /\ lastLife[sPid[s]] # "PlayerLeft"
            /\ lastLife[sPid[s]] = "PlayerJoined" => snapshot[sPid[s]].present

\* C24 witness: the actor handled a Move after the one that sent Kicked, the
\* connection is open and every event is applied.
C24_Witness ==
    \E s \in Sessions :
        /\ KickedSent(s)
        /\ sPc[s] = "read"
        /\ actor[s].violations = MAX_VIOLATIONS + 1
        /\ bus = <<>>
        /\ snapshot[sPid[s]].present

(***************************************************************************)
(* Claims about the exits of the session handler (Spec).                   *)
(***************************************************************************)
\* The handler of session s has returned, after it had registered its sink.
SessExited(s) == sPc[s] \in {"done", "refused"}

\* The handler of session s has called stop_actor on its path on its way out.
ExitStopRequested(s) == sPc[s] = "done"

\* C25: when a session handler that had registered its sink has returned
\* (after a read error or the end of the stream, or because create_actor
\* failed), the session's sink is not in the connection registry and the
\* handler has requested a stop for its actor path on its way out.
C25_EveryExitCleansUp ==
    \A s \in Sessions :
        SessExited(s) => (connections[sPid[s]] # s /\ ExitStopRequested(s))

(***************************************************************************)
(* Claims about a Valid move, from the handler to the snapshot (SpecSolo). *)
(***************************************************************************)
ClassOf(a, msg) ==
    validate_movement(a.position, msg.position, msg.velocity, msg.dt10, MAX_SPEED)

\* C26: the handler of a Move classified Valid leaves the actor with the
\* message's position and velocity and appends to the bus exactly one event,
\* PlayerMoved with that position and velocity; and when the maintainer
\* applies a PlayerMoved to an entry, the entry's position and velocity
\* become the event's and its previous_position the position it had.
C26_ValidMoveCommittedAndApplied ==
    [][/\ \A i \in Sessions : \A env \in inflight[i] \ inflight'[i] :
             ClassOf(actor[i], env.msg) = "Valid" =>
                /\ actor'[i].position = env.msg.position
                /\ actor'[i].velocity = env.msg.velocity
                /\ bus' = Append(bus, PlayerMoved(sPid[i], env.msg.position,
                                                  env.msg.velocity))
       /\ (/\ bus # <<>>
           /\ bus' = Tail(bus)
           /\ Head(bus).type = "PlayerMoved"
           /\ snapshot[Head(bus).player_id].present)
          => /\ snapshot'[Head(bus).player_id].present
             /\ snapshot'[Head(bus).player_id].position = Head(bus).position
             /\ snapshot'[Head(bus).player_id].velocity = Head(bus).velocity
             /\ snapshot'[Head(bus).player_id].previous_position =
                    snapshot[Head(bus).player_id].position]_vars

\* C26 witness: the first Valid move of a player is committed and applied:
\* the entry has the committed position and, as previous_position, the
\* position the player joined at.
C26_Witness ==
    \E i \in Sessions :
        /\ aPc[i] = "recv"
        /\ bus = <<>>
        /\ actor[i].position = Position(15, 0, 0)
        /\ snapshot[sPid[i]].present
        /\ snapshot[sPid[i]].position = actor[i].position
        /\ snapshot[sPid[i]].velocity = actor[i].velocity
        /\ snapshot[sPid[i]].previous_position = PositionDefault

(***************************************************************************)
(* Claims about actor paths (SpecPath).                                    *)
(***************************************************************************)
\* C27: for every path p that is not empty, p.parent() / p.key() is p; also
\* when p has one segment and its parent is the empty path.
C27_ParentDivKeyIsPath ==
    (ptIn.called /\ ptIn.path # <<>>) =>
        /\ ptOut.joined = ptIn.path
        /\ Len(ptIn.path) = 1 => ptOut.parent = <<>>

\* C27 witness: the call on a path of one segment.
C27_Witness ==
    /\ ptIn.called
    /\ ptIn.path = <<"user">>
    /\ ptOut.parent = <<>>
    /\ ptOut.key = "user"
    /\ ptOut.joined = <<"user">>

(***************************************************************************)
(* Claims about the rate limiter over any interval (SpecRate).             *)
(***************************************************************************)
\* C28: in an interval of RATE_LIMIT_WINDOW_MS ms, whatever the time between
\* its beginning and the limiter's window anchor, at most
\* MAX_MOVES_PER_SECOND Move frames are told to the actor.
C28_AtMostSixtyInAnyInterval ==
    rlProbe.on => rlProbe.told <= MAX_MOVES_PER_SECOND

(***************************************************************************)
(* Claims about rejected moves and the snapshot (SpecMix).                 *)
(***************************************************************************)
Rejected == {"OutOfBounds", "Teleport", "SpeedHack"}

\* C29: the position of a snapshot entry of p is set only by the maintainer
\* applying a PlayerJoined or PlayerMoved of p, to the position the event
\* carries; and the handler of a Move that the validator rejects publishes
\* nothing, leaves the actor's position and the snapshot table as they
\* were: a rejected position never gets into the table.
C29_RejectedPositionNeverInSnapshot ==
    [][/\ \A p \in Players :
             (snapshot'[p] # snapshot[p] /\ snapshot'[p].present) =>
                /\ bus # <<>>
                /\ bus' = Tail(bus)
                /\ Head(bus).type \in {"PlayerJoined", "PlayerMoved"}
                /\ Head(bus).player_id = p
                /\ snapshot'[p].position = Head(bus).position
       /\ \A i \in Sessions : \A env \in inflight[i] \ inflight'[i] :
             ClassOf(actor[i], env.msg) \in Rejected =>
                /\ bus' = bus
                /\ snapshot' = snapshot
                /\ actor'[i].position = actor[i].position
                /\ \A k \in DOMAIN bus' :
                      bus'[k].type = "PlayerMoved" =>
                          bus'[k].position # env.msg.position]_vars

\* C29 witness: after a Valid move, a violation move and then an OutOfBounds
\* move have been handled, every event is applied, and the entry has the
\* position of the Valid move.
C29_Witness ==
    \E i \in Sessions :
        /\ aPc[i] = "recv"
        /\ bus = <<>>
        /\ mailbox[i] = <<>>
        /\ actor[i].position = Position(15, 0, 0)
        /\ actor[i].violations = 1
        /\ Len(outbox[i]) = 2
        /\ outbox[i][2] = ErrorFrame("Position out of bounds")
        /\ snapshot[sPid[i]].present
        /\ snapshot[sPid[i]].position = Position(15, 0, 0)

(***************************************************************************)
(* Claims about handle_game_event (SpecEvents).                            *)
(***************************************************************************)
MovedForUnknownId ==
    /\ evLast.called
    /\ evLast.event.type = "PlayerMoved"
    /\ ~evLast.before[evLast.event.player_id].present

\* C30: a PlayerMoved for an id that has no entry leaves the table as it
\* was: no entry is created for the id and the other entries are unchanged.
C30_MovedForUnknownIdIgnored ==
    MovedForUnknownId =>
        /\ evTable = evLast.before
        /\ ~evTable[evLast.event.player_id].present

\* C30 witness: a PlayerMoved for an id without entry was applied to a table
\* that holds the entry of another player, who has moved.
C30_Witness ==
    /\ MovedForUnknownId
    /\ \E q \in Players :
          /\ q # evLast.event.player_id
          /\ evTable[q].present
          /\ evTable[q].position # evTable[q].previous_position

(***************************************************************************)
(* Claims about ask (SpecAsk, SpecAskFair).                                *)
(***************************************************************************)
AskQueued(id) == \E k \in DOMAIN akMailbox : akMailbox[k].id = id

AskHandledIds == {akHandled[k].id : k \in DOMAIN akHandled}

\* The handler of an ask whose caller has given up returns.
ReplyFails ==
    /\ akPc = "handle"
    /\ akPc' # "handle"
    /\ \E env \in akInflight : akAsk[env.id].st = "gave_up"

\* C31: when the caller of an ask has dropped the reply channel before the
\* handler returns, the failed send of the reply is swallowed: the handler's
\* change of the actor's state is kept and the runner goes back to the
\* receive loop; the k-th message handled finds the state the k-1 before it
\* left, and every message queued while the runner is in the loop is
\* eventually handled.
C31_ReplyFailureSwallowed ==
    /\ [][ReplyFails => /\ akState' = akState + 1
                        /\ akPc' = "recv"
                        /\ akAsk' = akAsk]_vars
    /\ [](\A k \in DOMAIN akHandled : akHandled[k].response = k)
    /\ \A id \in AskIds :
          (AskQueued(id) /\ akPc \in {"recv", "handle"}) ~> (id \in AskHandledIds)

\* C31 witness: the reply of a handled ask could not be sent, and the ask
\* sent after it was handled and answered with the state after both.
C31_Witness ==
    \E k \in DOMAIN akHandled :
        /\ akHandled[k].reply = "failed"
        /\ k + 1 \in DOMAIN akHandled
        /\ akHandled[k + 1].reply = "sent"
        /\ akAsk[akHandled[k + 1].id] = [st |-> "Ok", value |-> k + 1]
        /\ akState = k + 1

\* An ask is called on a closed mailbox.
AskOnClosed ==
    /\ akLast' # akLast
    /\ akLast'.kind = "ask"
    /\ akLast'.closed

\* C32: an ask on a closed mailbox fails at once with SendError and enqueues
\* nothing; an ask that is answered Ok carries the response of the handler
\* that handled its envelope; an ask that fails was never handled; when the
\* runner's task has ended no ask is still waiting; and every waiting ask
\* eventually completes (or is given up by its caller).
C32_EveryAskCompletes ==
    /\ [][AskOnClosed => /\ akAsk'[akLast'.id] = [st |-> "SendError", at |-> "send"]
                         /\ akMailbox' = akMailbox]_vars
    /\ [](\A id \in AskIds :
             /\ akAsk[id].st = "Ok" =>
                   \E k \in DOMAIN akHandled :
                       /\ akHandled[k].id = id
                       /\ akHandled[k].response = akAsk[id].value
             /\ akAsk[id].st = "SendError" => id \notin AskHandledIds
             /\ akPc = "done" => akAsk[id].st # "waiting")
    /\ \A id \in AskIds :
          (akAsk[id].st = "waiting") ~> (akAsk[id].st # "waiting")

\* C32 witness: the runner's task has ended after a failed start; an ask that
\* was enqueued before and never handled has completed with SendError, and
\* the ask called after the mailbox was closed failed at once.
C32_Witness ==
    /\ akPc = "done"
    /\ akState = 0
    /\ akLast.kind = "ask" /\ akLast.closed
    /\ akAsk[akLast.id] = [st |-> "SendError", at |-> "send"]
    /\ \E id \in AskIds :
          /\ id < akLast.id
          /\ akAsk[id] = [st |-> "SendError", at |-> "await"]

(***************************************************************************)
(* Claims about the events of one Player Actor (SpecSolo).                 *)
(***************************************************************************)
\* The events a step appends to the bus.
Published ==
    IF Len(bus') > Len(bus) THEN SubSeq(bus', Len(bus) + 1, Len(bus')) ELSE <<>>

\* The step is one of actor i's runner.
RunnerStepOf(i) == aPc'[i] # aPc[i] \/ hlog'[i] # hlog[i]

\* How far the runner of an actor has come.
Phase(pc) ==
    CASE pc = "none" -> 0
      [] pc = "pre_start" -> 1
      [] pc \in {"recv", "handle"} -> 2
      [] pc = "post_stop" -> 3
      [] pc = "unregister" -> 4
      [] pc = "done" -> 5

\* The PlayerJoined and PlayerLeft publications of actor i, in order.
LifeOf(i) ==
    LET own == SelectSeq(lifeLog, LAMBDA e : e.src = i)
    IN  [k \in DOMAIN own |-> own[k].type]

\* C33: the events one Player Actor publishes are one PlayerJoined (by
\* pre_start), then PlayerMoved events (by Move handlers only), then one
\* PlayerLeft (by post_stop, which runs once): the runner never goes back to
\* an earlier phase, a step publishes according to the phase it is taken in,
\* and the PlayerJoined and PlayerLeft published so far are the ones of the
\* phases passed.
C33_JoinedMovedLeftPerActor ==
    /\ [][\A i \in Sessions :
            /\ Phase(aPc'[i]) >= Phase(aPc[i])
            /\ RunnerStepOf(i) =>
                  CASE aPc[i] = "pre_start" ->
                          /\ Published = <<PlayerJoined(sPid[i], PositionDefault)>>
                          /\ Phase(aPc'[i]) = 2
                    [] aPc[i] = "handle" ->
                          /\ Len(Published) <= 1
                          /\ \A k \in DOMAIN Published :
                                /\ Published[k].type = "PlayerMoved"
                                /\ Published[k].player_id = sPid[i]
                    [] aPc[i] = "post_stop" ->
                          /\ Published = <<PlayerLeft(sPid[i])>>
                          /\ Phase(aPc'[i]) = 4
                    [] OTHER -> Published = <<>>]_vars
    /\ [](\A i \in Sessions :
            LifeOf(i) = CASE Phase(aPc[i]) <= 1 -> <<>>
                          [] Phase(aPc[i]) \in {2, 3} -> <<"PlayerJoined">>
                          [] OTHER -> <<"PlayerJoined", "PlayerLeft">>)

\* C33 witness: an actor has stopped, and the bus holds what it published:
\* PlayerJoined, two PlayerMoved, PlayerLeft.
C33_Witness ==
    /\ aPc[1] = "done"
    /\ Len(bus) = 4
    /\ bus[1].type = "PlayerJoined"
    /\ bus[2].type = "PlayerMoved"
    /\ bus[3].type = "PlayerMoved"
    /\ bus[4] = PlayerLeft(sPid[1])
    /\ LifeOf(1) = <<"PlayerJoined", "PlayerLeft">>

(***************************************************************************)
(* Claims about reconnection (Spec).                                       *)
(***************************************************************************)
\* Session o takes a step of its exit cleanup (websocket.rs lines 112-113).
ExitCleanupStep(o) ==
    /\ sPc[o] \in {"exit_remove", "exit_stop"}
    /\ sPc'[o] # sPc[o]

\* C34: the exit cleanup of a session leaves alone the sink and the actor of
\* another session for the same player id that has connected and is reading
\* frames: if the Connection Registry holds the other session's sink it
\* still does after the step, and if the actor registry holds the other
\* session's actor it still does and the actor has not been stopped.
C34_OldExitSparesNewSession ==
    [][\A o, n \in Sessions :
          (o # n /\ sPid[o] = sPid[n] /\ sPc[n] = "read" /\ ExitCleanupStep(o)) =>
              /\ connections[sPid[n]] = n => connections'[sPid[n]] = n
              /\ registry[sPid[n]] = n =>
                    /\ registry'[sPid[n]] = n
                    /\ closed'[n] = closed[n]
                    /\ stopped'[n] = stopped[n]]_vars

\* The runner of actor i takes the step after post_stop (runner.rs line 86).
SelfRemovalStep(i) ==
    /\ aPc[i] = "unregister"
    /\ aPc'[i] = "done"

\* C35: the stop_actor a runner calls on its own path after post_stop leaves
\* a newer actor alone: if the registry holds another actor at the path, it
\* still holds it after the step, and that actor's mailbox has not been
\* closed by the step.
C35_SelfRemovalSparesNewerActor ==
    [][\A i, j \in Sessions :
          (i # j /\ SelfRemovalStep(i) /\ registry[sPid[i]] = j) =>
              /\ registry'[sPid[i]] = j
              /\ closed'[j] = closed[j]
              /\ stopped'[j] = stopped[j]]_vars

(***************************************************************************)
(* Claims about the violations field of the snapshot (SpecMixTick).        *)
(***************************************************************************)
\* C36: every entry of the snapshot table has violations = 0, and so has
\* every player state a StateUpdate carries, whatever the violations
\* counters of the Player Actors are.
C36_SnapshotViolationsZero ==
    /\ \A p \in Players : snapshot[p].present => snapshot[p].violations = 0
    /\ update.sent => \A e \in update.players : e.state.violations = 0

\* C36 witness: a Player Actor has counted a violation after a move that was
\* applied to the table, and the table and the last StateUpdate hold its
\* entry, moved, with violations = 0.
C36_Witness ==
    \E i \in Sessions :
        /\ actor[i].violations > 0
        /\ aPc[i] = "recv"
        /\ snapshot[sPid[i]].present
        /\ snapshot[sPid[i]].position = Position(15, 0, 0)
        /\ update.sent
        /\ \E e \in update.players :
              /\ e.player_id = sPid[i]
              /\ e.state = snapshot[sPid[i]]

====
